---- MODULE Spec2Model ----
(***************************************************************************)
(* The latent ("MuZero") search tree of kZero and its two-phase            *)
(* gather/apply protocol: kz-core/src/muzero/step.rs, driven the way       *)
(* kz-core/src/muzero/wrapper.rs drives it, with the top-k helper of       *)
(* kz-util/src/lib.rs.                                                     *)
(*                                                                         *)
(* Numbers.  Logits are small integers and exp is modelled by the strictly *)
(* increasing, strictly positive function 2^x, so a prior is the exact     *)
(* rational num/den and "sums to 1" means the numerators sum to den;       *)
(* floating-point rounding and overflow are outside this model.            *)
(* Win/draw/loss values are integer triples, an average is the pair (sum,  *)
(* visits).  A panic is recorded in the variable panic and ends the run of *)
(* the tree; the tree is left as the code leaves it at that point.         *)
(*                                                                         *)
(* The second part is the self-play generator of                           *)
(* kz-selfplay/src/server/generator.rs (specification GenSpec): one action *)
(* Tick is one call of GeneratorState::step, with every game step, cache   *)
(* lookup, finished move and network batch it performs.  The board is a    *)
(* counting game of GameLength plies, the network is a fixed function of   *)
(* the board, and the random draws (full search, noise sample, selected    *)
(* move) are choices.  The variable tick records what the last call did.   *)
(*                                                                         *)
(* The third part is the worker loop generator_main (specification         *)
(* MainSpec): Recv is the receive of a round and the match on its result,  *)
(* Advance the call of step that follows when settings and network are     *)
(* there, DropReceiver the other end of the update channel going away.     *)
(* The variable main records the last round.  CancelSpec puts the worker   *)
(* beside the driver of the latent tree, EvaluatorSpec beside a caller of  *)
(* evaluate_batch (kz-core/src/network/cudnn.rs), and TopKSpec is          *)
(* top_k_indices_sorted called on slices that may hold NaN, a value that   *)
(* partial_cmp cannot order.  AnyBoardSpec is Spec with a root board that  *)
(* may have no move, ExpandTreeSpec the loop of expand_tree (gather, then  *)
(* apply with the executors' response, until the stop test holds), and     *)
(* AnyBudgetSpec is GenSpec with settings whose iteration budgets may be 0.*)
(***************************************************************************)
EXTENDS Integers, Sequences, FiniteSets, TLC

\* size of the full action space (mapper.policy_len()) in the model
PolicyLen == 2
\* largest length of a slice handed to top_k_indices_sorted on its own
MaxValuesLen == 3
\* largest configured top_moves
MaxTopMoves == 2
\* largest configured draw depth
MaxDrawDepth == 3
\* iteration budget: the stop predicate root_visits >= MaxIterations
MaxIterations == 3
\* largest batch_size of a generator
MaxBatchSize == 2
\* games a generator may start (the cap on ctx.next_index)
MaxGames == 3
\* plies after which the model's game is over
GameLength == 3
\* capacity of a game's cache (settings.cache_size)
MaxCacheSize == 2
\* commands a worker may receive
MaxCommands == 4
\* ticks a worker may run
MaxTicks == 4

VARIABLES
    nodes,               \* the arena: a function 0..n-1 -> node
    current_node_index,  \* the outstanding-request marker, Option<usize>
    root_board,          \* the root board: its set of available move indices
    draw_depth,          \* tree.draw_depth
    top_moves,           \* settings.top_moves
    fpu_mode,            \* settings.fpu_mode
    next_state,          \* the evaluator's next fresh state handle
    panic,               \* "" while running, else the panic message
    last,                \* history: the last call, its arguments and its return value
    prev,                \* history: nodes and marker as they were before the last call
    pending,             \* history: the request the last gather returned, until an apply
    games,               \* GeneratorState::games
    responses,           \* GeneratorState::responses
    batch_size,          \* GeneratorState::batch_size
    settings,            \* ctx.settings
    next_index,          \* ctx.next_index
    gen_panic,           \* "" while the generator runs, else the panic message
    tick,                \* history: what the last GeneratorState::step did
    network,             \* generator_main: the evaluator, Option<CudnnNetwork>
    sender_open,         \* whether the receiver of the update channel still exists
    worker,              \* "running", or how generator_main ended
    pc,                  \* generator_main: "recv" before the receive, "advance" after the match
    received,            \* history: the numbers of commands received and of networks loaded
    main,                \* history: the last receive, its result, and whether a tick followed
    call                 \* history: a call of a function by another caller, and its result

tree_vars == <<nodes, current_node_index, root_board, draw_depth, top_moves, fpu_mode,
               next_state, panic, last, prev, pending>>

gen_vars == <<games, responses, batch_size, settings, next_index, gen_panic, tick>>

main_vars == <<network, sender_open, worker, pc, received, main, call>>

vars == <<tree_vars, gen_vars, main_vars>>

----------------------------------------------------------------------------
\* Option<T>

None == <<>>

Some(x) == <<x>>

Unwrap(o) == o[1]

----------------------------------------------------------------------------
\* Vec<MuNode> as a function on 0..n-1

Len0(v) == Cardinality(DOMAIN v)

Push(v, x) == [i \in 0..Len0(v) |-> IF i < Len0(v) THEN v[i] ELSE x]

Actions == 0..(PolicyLen - 1)

----------------------------------------------------------------------------
\* ZeroValuesPov: win/draw/loss and the remaining-plies estimate

WDL(w, d, l, m) == [win |-> w, draw |-> d, loss |-> l, moves_left |-> m]

ZeroValue == WDL(0, 0, 0, 0)

\* ZeroValuesPov::from_outcome(OutcomeWDL::Draw, 0.0)
DrawValue == WDL(0, 1, 0, 0)

WinValue == WDL(1, 0, 0, 0)

LossValue == WDL(0, 0, 1, 0)

flip(v) == [v EXCEPT !.win = v.loss, !.loss = v.win]

parent_flip(v) == [flip(v) EXCEPT !.moves_left = @ + 1]

AddValues(a, b) ==
    WDL(a.win + b.win, a.draw + b.draw, a.loss + b.loss, a.moves_left + b.moves_left)

----------------------------------------------------------------------------
\* MuNode

MuNodeNew(parent, last_move_index, p) ==
    [ parent          |-> parent,
      last_move_index |-> last_move_index,
      net_policy      |-> p,
      visits          |-> 0,
      sum_values      |-> ZeroValue,
      inner           |-> None ]

\* IdxRange::new(start, end): the half-open range start..end
IdxRange(start, end) == [start |-> start, end |-> end]

RangeIndices(r) == r.start..(r.end - 1)

RangeLen(r) == r.end - r.start

----------------------------------------------------------------------------
\* kz-util: top_k_indices_sorted

\* f32::NAN among the model's integer values
NaN == -99

is_nan(a) == a = NaN

\* f32::partial_cmp: no order when either side is NaN
partial_cmp(a, b) ==
    IF is_nan(a) \/ is_nan(b) THEN None
    ELSE Some(IF a < b THEN "Less" ELSE IF a = b THEN "Equal" ELSE "Greater")

\* seeded fault: a NaN compares lower than every other value
compare_nan_lowest(a, b) ==
    LET ord == partial_cmp(a, b)
        eq == (a = b /\ ~is_nan(a)) \/ (is_nan(a) /\ is_nan(b))
        first_nan == is_nan(a)
    IN  IF ord # None THEN Unwrap(ord)
        ELSE IF eq THEN "Equal"
        ELSE IF first_nan THEN "Less"
        ELSE "Greater"

\* compare(a, b) of top_k_indices_sorted
compare(a, b) ==
    LET ord == partial_cmp(a, b)
        eq == (a = b /\ ~is_nan(a)) \/ (is_nan(a) /\ is_nan(b))
        first_nan == is_nan(a)
    IN  IF ord # None THEN Unwrap(ord)
        ELSE IF eq THEN "Equal"
        ELSE IF first_nan THEN "Greater"
        ELSE "Less"

reverse(ord) ==
    IF ord = "Less" THEN "Greater" ELSE IF ord = "Greater" THEN "Less" ELSE "Equal"

compare_index(values, i, j) == reverse(compare(values[i], values[j]))

SeqRange(s) == {s[p] : p \in DOMAIN s}

IsInjective(s) == \A p, q \in DOMAIN s : p # q => s[p] # s[q]

\* sorted by compare_index: no element comes before one that compares lower
IsSortedByIndex(values, s) ==
    \A p, q \in DOMAIN s : p < q => compare_index(values, s[p], s[q]) # "Greater"

\* a stable sort keeps elements that compare Equal in their previous (index) order
IsStableByIndex(values, s) ==
    \A p, q \in DOMAIN s :
        (p < q /\ compare_index(values, s[p], s[q]) = "Equal") => s[p] < s[q]

\* seeded fault: the result is sorted but never truncated to k
top_k_indices_sorted_untruncated(values, k) ==
    LET n == Len0(values) IN
    { s \in [1..n -> 0..(n - 1)] :
        /\ IsInjective(s)
        /\ IsSortedByIndex(values, s)
        /\ IsStableByIndex(values, s) }

\* The set of results the function may return.  For k < n, select_nth_unstable_by
\* leaves the k first elements (those that compare lowest) in an unspecified
\* order, which the stable sort_by keeps among equal values; for k >= n the
\* stable sort of 0..n-1 is the only result.
top_k_indices_sorted(values, k) ==
    LET n == Len0(values) IN
    IF k < n
    THEN { s \in [1..k -> 0..(n - 1)] :
             /\ IsInjective(s)
             /\ IsSortedByIndex(values, s)
             /\ \A j \in (0..(n - 1)) \ SeqRange(s) :
                    \A p \in DOMAIN s : compare_index(values, s[p], j) # "Greater" }
    ELSE { s \in [1..n -> 0..(n - 1)] :
             /\ IsInjective(s)
             /\ IsSortedByIndex(values, s)
             /\ IsStableByIndex(values, s) }

----------------------------------------------------------------------------
\* step.rs: create_child_nodes and tree_propagate_values

\* f32::exp on the model's integer logits: strictly increasing and positive
Exp(x) == 2 ^ x

RECURSIVE SumExp(_, _)
SumExp(indices, policy_logits) ==
    IF indices = <<>> THEN 0
    ELSE Exp(policy_logits[Head(indices)]) + SumExp(Tail(indices), policy_logits)

RECURSIVE PushChildren(_, _, _, _, _)
PushChildren(ns, parent_node, indices, policy_logits, total_p) ==
    IF indices = <<>> THEN ns
    ELSE PushChildren(
             Push(ns, MuNodeNew(Some(parent_node), Some(Head(indices)),
                                [num |-> Exp(policy_logits[Head(indices)]),
                                 den |-> total_p])),
             parent_node, Tail(indices), policy_logits, total_p)

\* seeded fault: every new node gets the root as its parent
create_child_nodes_root_parent(ns, parent_node, indices, policy_logits) ==
    LET start == Len0(ns)
        total_p == SumExp(indices, policy_logits)
        grown == PushChildren(ns, 0, indices, policy_logits, total_p)
    IN  [nodes |-> grown, children |-> IdxRange(start, Len0(grown))]

\* returns the grown arena and the new children's range
create_child_nodes(ns, parent_node, indices, policy_logits) ==
    LET start == Len0(ns)
        total_p == SumExp(indices, policy_logits)
        grown == PushChildren(ns, parent_node, indices, policy_logits, total_p)
    IN  [nodes |-> grown, children |-> IdxRange(start, Len0(grown))]

RECURSIVE PropagateLoop(_, _, _)
PropagateLoop(ns, curr_index, values) ==
    LET visited == [ns EXCEPT ![curr_index].visits = @ + 1,
                              ![curr_index].sum_values = AddValues(@, values)]
    IN  IF ns[curr_index].parent = None
        THEN visited
        ELSE PropagateLoop(visited, Unwrap(ns[curr_index].parent), parent_flip(values))

\* seeded fault: only the evaluated node is visited, the walk to the root is missing
tree_propagate_values_no_walk(ns, node, values) ==
    [ns EXCEPT ![node].visits = @ + 1,
               ![node].sum_values = AddValues(@, flip(values))]

\* seeded fault: the flip to the evaluated node's perspective is missing
tree_propagate_values_no_first_flip(ns, node, values) == PropagateLoop(ns, node, values)

tree_propagate_values(ns, node, values) == PropagateLoop(ns, node, flip(values))

----------------------------------------------------------------------------
\* selection score (zero/node.rs and zero/step.rs are not part of the sources
\* at hand; modelled from the description of the selection score)

\* an average value: the pair (sum of values, number of visits)
Avg(sum, den) == [sum |-> sum, den |-> den]

\* MuNode::values(): the running average of the backpropagated values
NodeValues(node) == Avg(node.sum_values, node.visits)

AvgFlip(a) == Avg(flip(a.sum), a.den)

\* the scalar value win - loss of an average, in thousandths
ValueMilli(a) == (1000 * (a.sum.win - a.sum.loss)) \div a.den

FpuParent == [kind |-> "Parent", x |-> 0]

FpuRelative(x) == [kind |-> "Relative", x |-> x]

FpuFixed(x) == [kind |-> "Fixed", x |-> x]

\* FpuMode::select, in thousandths
FpuSelect(mode, fpu) ==
    IF mode.kind = "Parent" THEN ValueMilli(fpu)
    ELSE IF mode.kind = "Relative" THEN ValueMilli(fpu) - mode.x
    ELSE mode.x

\* floor(sqrt(n)) by bisection: the largest r in lo..hi with r * r <= n
RECURSIVE ISqrt(_, _, _)
ISqrt(n, lo, hi) ==
    IF lo >= hi THEN lo
    ELSE LET mid == (lo + hi + 1) \div 2
         IN  IF mid * mid <= n THEN ISqrt(n, mid, hi) ELSE ISqrt(n, lo, mid - 1)

\* floor(100 * sqrt(k))
SqrtCenti(k) == ISqrt(10000 * k, 0, 100 * (k + 1))

\* child.uct(parent_total_visits, fpu, use_value).total(weights), in thousandths:
\* v + exploration_weight * p * sqrt(N - 1) / (1 + n), with v the child's own
\* average once visited and the FPU baseline before
UctTotal(child, parent_total_visits, fpu_milli, exploration_weight) ==
    LET v == IF child.visits > 0 THEN ValueMilli(NodeValues(child)) ELSE fpu_milli
        u == (10 * child.net_policy.num * SqrtCenti(parent_total_visits - 1))
                 \div (child.net_policy.den * (1 + child.visits))
    IN  v + exploration_weight * u

PolicyLess(p, q) == p.num * q.den < q.num * p.den

\* seeded fault: the key is the score alone
KeyLess_score_only(a, b) == a.uct < b.uct

\* the order of the key (N32(uct), N32(net_policy))
KeyLess(a, b) == a.uct < b.uct \/ (a.uct = b.uct /\ PolicyLess(a.policy, b.policy))

\* Itertools::position_max_by_key: the position of the last maximum
PositionMaxByKey(len, key(_)) ==
    CHOOSE i \in 0..(len - 1) :
        /\ \A j \in 0..(len - 1) : ~KeyLess(key(i), key(j))
        /\ \A j \in (i + 1)..(len - 1) : KeyLess(key(j), key(i))

----------------------------------------------------------------------------
\* step.rs: requests, responses and muzero_step_gather

MuZeroRootRequest(node, board) ==
    [kind |-> "Root", node |-> node, board |-> Some(board),
     state |-> None, move_index |-> None]

MuZeroExpandRequest(node, state, move_index) ==
    [kind |-> "Expand", node |-> node, board |-> None,
     state |-> Some(state), move_index |-> Some(move_index)]

MuZeroResponse(node, state, values, policy_logits) ==
    [node |-> node, state |-> state, values |-> values, policy_logits |-> policy_logits]

\* what a call leaves behind: the arena, the marker, the panic message ("" for
\* a call that returns) and the returned value
Outcome(ns, marker, msg, ret) ==
    [nodes |-> ns, current_node_index |-> marker, panic |-> msg, ret |-> ret]

\* weights.exploration_weight of the model's settings
ExplorationWeight == 2

\* seeded fault: the draw cutoff compares with > and so acts one level too deep
RECURSIVE GatherLoop_late_cutoff(_, _, _, _, _, _, _)
GatherLoop_late_cutoff(ns, dd, mode, curr_node, fpu, depth, last_ctx) ==
    IF depth > dd
    THEN Outcome(tree_propagate_values(ns, curr_node, DrawValue), None, "", None)
    ELSE IF ns[curr_node].inner = None
    THEN Outcome(ns, Some(curr_node), "",
                 Some(MuZeroExpandRequest(curr_node, Unwrap(last_ctx.last_state),
                                          Unwrap(last_ctx.last_move_index))))
    ELSE LET inner == Unwrap(ns[curr_node].inner)
             fpu1 == IF ns[curr_node].visits > 0 THEN NodeValues(ns[curr_node]) ELSE fpu
             fpu2 == AvgFlip(fpu1)
             parent_total_visits == ns[curr_node].visits
             key(i) == LET child == ns[inner.children.start + i]
                       IN  [uct |-> UctTotal(child, parent_total_visits,
                                             FpuSelect(mode, fpu2), ExplorationWeight),
                            policy |-> child.net_policy]
         IN  IF RangeLen(inner.children) = 0
             THEN Outcome(ns, None, "Children cannot be be empty", None)
             ELSE LET selected_child == PositionMaxByKey(RangeLen(inner.children), key)
                      selected_node == inner.children.start + selected_child
                  IN  GatherLoop_late_cutoff(ns, dd, mode, selected_node, fpu2, depth + 1,
                                 [last_move_index |-> ns[selected_node].last_move_index,
                                  last_state |-> Some(inner.state)])

\* seeded fault: the request carries the position of the selected child in its
\* parent's range instead of the child's action index
RECURSIVE GatherLoop_child_position(_, _, _, _, _, _, _)
GatherLoop_child_position(ns, dd, mode, curr_node, fpu, depth, last_ctx) ==
    IF depth >= dd
    THEN Outcome(tree_propagate_values(ns, curr_node, DrawValue), None, "", None)
    ELSE IF ns[curr_node].inner = None
    THEN Outcome(ns, Some(curr_node), "",
                 Some(MuZeroExpandRequest(curr_node, Unwrap(last_ctx.last_state),
                                          Unwrap(last_ctx.last_move_index))))
    ELSE LET inner == Unwrap(ns[curr_node].inner)
             fpu1 == IF ns[curr_node].visits > 0 THEN NodeValues(ns[curr_node]) ELSE fpu
             fpu2 == AvgFlip(fpu1)
             parent_total_visits == ns[curr_node].visits
             key(i) == LET child == ns[inner.children.start + i]
                       IN  [uct |-> UctTotal(child, parent_total_visits,
                                             FpuSelect(mode, fpu2), ExplorationWeight),
                            policy |-> child.net_policy]
         IN  IF RangeLen(inner.children) = 0
             THEN Outcome(ns, None, "Children cannot be be empty", None)
             ELSE LET selected_child == PositionMaxByKey(RangeLen(inner.children), key)
                      selected_node == inner.children.start + selected_child
                  IN  GatherLoop_child_position(ns, dd, mode, selected_node, fpu2, depth + 1,
                                 [last_move_index |-> Some(selected_child),
                                  last_state |-> Some(inner.state)])

\* seeded fault: a node without children is itself taken as the node to
\* evaluate, and a request for it is returned
NoChildSelected_requests(ns, curr_node) ==
    Outcome(ns, Some(curr_node), "", Some(MuZeroExpandRequest(curr_node, 0, 0)))

\* position_max_by_key over no children is None: the expect panics
NoChildSelected(ns, curr_node) ==
    Outcome(ns, None, "Children cannot be be empty", None)

RECURSIVE GatherLoop(_, _, _, _, _, _, _)
GatherLoop(ns, dd, mode, curr_node, fpu, depth, last_ctx) ==
    IF depth >= dd
    THEN Outcome(tree_propagate_values(ns, curr_node, DrawValue), None, "", None)
    ELSE IF ns[curr_node].inner = None
    THEN Outcome(ns, Some(curr_node), "",
                 Some(MuZeroExpandRequest(curr_node, Unwrap(last_ctx.last_state),
                                          Unwrap(last_ctx.last_move_index))))
    ELSE LET inner == Unwrap(ns[curr_node].inner)
             fpu1 == IF ns[curr_node].visits > 0 THEN NodeValues(ns[curr_node]) ELSE fpu
             fpu2 == AvgFlip(fpu1)
             parent_total_visits == ns[curr_node].visits
             key(i) == LET child == ns[inner.children.start + i]
                       IN  [uct |-> UctTotal(child, parent_total_visits,
                                             FpuSelect(mode, fpu2), ExplorationWeight),
                            policy |-> child.net_policy]
         IN  IF RangeLen(inner.children) = 0
             THEN NoChildSelected(ns, curr_node)
             ELSE LET selected_child == PositionMaxByKey(RangeLen(inner.children), key)
                      selected_node == inner.children.start + selected_child
                  IN  GatherLoop(ns, dd, mode, selected_node, fpu2, depth + 1,
                                 [last_move_index |-> ns[selected_node].last_move_index,
                                  last_state |-> Some(inner.state)])

\* seeded fault: the precondition on the outstanding-request marker is not checked
muzero_step_gather_unchecked(ns, marker, board, dd, mode) ==
    IF ns[0].inner = None
    THEN Outcome(ns, Some(0), "", Some(MuZeroRootRequest(0, board)))
    ELSE GatherLoop(ns, dd, mode, 0, Avg(DrawValue, 1), 0,
                    [last_move_index |-> None, last_state |-> None])

muzero_step_gather(ns, marker, board, dd, mode) ==
    IF marker # None
    THEN Outcome(ns, marker, "There is already a gathered node waiting to be applied", None)
    ELSE IF ns[0].inner = None
    THEN Outcome(ns, Some(0), "", Some(MuZeroRootRequest(0, board)))
    ELSE GatherLoop(ns, dd, mode, 0, Avg(DrawValue, 1), 0,
                    [last_move_index |-> None, last_state |-> None])

----------------------------------------------------------------------------
\* step.rs: muzero_step_apply

RECURSIVE SortedSeq(_)
SortedSeq(S) ==
    IF S = {} THEN <<>>
    ELSE LET m == CHOOSE x \in S : \A y \in S : x <= y
         IN  <<m>> \o SortedSeq(S \ {m})

\* board.available_moves() mapped through move_to_index: the board's moves in
\* the board's own (index) order
AvailableMoves(board) == SortedSeq(board)

\* seeded fault: the root stores the top_moves highest logits like every other node
ApplyIndices_top_k_everywhere(board, node, tm, policy_logits) ==
    top_k_indices_sorted(policy_logits, tm)

\* the child indices apply stores: every available move at the root, the
\* top_moves highest logits elsewhere (a set: see top_k_indices_sorted)
ApplyIndices(board, node, tm, policy_logits) ==
    IF node = 0
    THEN {AvailableMoves(board)}
    ELSE top_k_indices_sorted(policy_logits, tm)

\* the tree after a valid response, for one choice of stored indices
\* seeded fault: the prior of the expanded node is normalized along with
\* those of its new children, and becomes 1
ApplyExpand_renormalizes_node(ns, response, indices) ==
    LET cc == create_child_nodes(ns, response.node, indices, response.policy_logits)
        inner == [state |-> response.state, net_values |-> response.values,
                  children |-> cc.children]
        with_inner == [cc.nodes EXCEPT ![response.node].inner = Some(inner),
                                       ![response.node].net_policy = [num |-> 1, den |-> 1]]
    IN  tree_propagate_values(with_inner, response.node, response.values)

ApplyExpand(ns, response, indices) ==
    LET cc == create_child_nodes(ns, response.node, indices, response.policy_logits)
        inner == [state |-> response.state, net_values |-> response.values,
                  children |-> cc.children]
        with_inner == [cc.nodes EXCEPT ![response.node].inner = Some(inner)]
    IN  tree_propagate_values(with_inner, response.node, response.values)

\* seeded fault: the marker is read but not taken, so apply leaves it set
muzero_step_apply_keep_marker(ns, marker, board, tm, response) ==
    IF marker # Some(response.node)
    THEN {Outcome(ns, marker, "Unexpected apply node", None)}
    ELSE IF PolicyLen # Len0(response.policy_logits)
    THEN {Outcome(ns, marker, "policy length mismatch", None)}
    ELSE {Outcome(ApplyExpand(ns, response, indices), marker, "", None) :
              indices \in ApplyIndices(board, response.node, tm, response.policy_logits)}

\* seeded fault: the policy length is checked only after the values were propagated
muzero_step_apply_late_check(ns, marker, board, tm, response) ==
    IF marker # Some(response.node)
    THEN {Outcome(ns, None, "Unexpected apply node", None)}
    ELSE IF PolicyLen # Len0(response.policy_logits)
    THEN {Outcome(tree_propagate_values(ns, response.node, response.values), None,
                  "policy length mismatch", None)}
    ELSE {Outcome(ApplyExpand(ns, response, indices), None, "", None) :
              indices \in ApplyIndices(board, response.node, tm, response.policy_logits)}

\* the set of outcomes of muzero_step_apply(tree, top_moves, response)
muzero_step_apply(ns, marker, board, tm, response) ==
    LET expected_node == marker IN
    IF tm = 0
    THEN {Outcome(ns, marker, "assertion failed: top_moves != 0", None)}
    ELSE IF expected_node # Some(response.node)
    THEN {Outcome(ns, None, "Unexpected apply node", None)}
    ELSE IF PolicyLen # Len0(response.policy_logits)
    THEN {Outcome(ns, None, "policy length mismatch", None)}
    ELSE {Outcome(ApplyExpand(ns, response, indices), None, "", None) :
              indices \in ApplyIndices(board, response.node, tm, response.policy_logits)}

----------------------------------------------------------------------------
\* inputs

\* policy-logit vectors of the right length: flat, ascending and descending
FlatLogits == [i \in Actions |-> 0]

AscendingLogits == [i \in Actions |-> i]

DescendingLogits == [i \in Actions |-> PolicyLen - 1 - i]

LogitChoices == {FlatLogits, AscendingLogits, DescendingLogits}

\* a policy-logit vector one entry short of the action space
ShortLogits == [i \in 0..(PolicyLen - 2) |-> 0]

\* the (values, policy_logits) pairs an evaluation may hold: a won position
\* with every logit vector, a lost one with the ascending vector
Evaluations ==
    {[values |-> WinValue, policy_logits |-> l] : l \in LogitChoices}
    \cup {[values |-> LossValue, policy_logits |-> AscendingLogits]}

FpuModes == {FpuParent}

\* the responses a caller may hand to apply in the current state: for the
\* outstanding node every evaluation and one with a vector of a wrong
\* length, and one response each for the first node, the last node and an
\* index past the arena, when it is not the outstanding one
Responses ==
    {MuZeroResponse(n, next_state, e.values, e.policy_logits) :
         n \in SeqRange(current_node_index), e \in Evaluations}
    \cup
    {MuZeroResponse(n, next_state, WinValue, ShortLogits) :
         n \in SeqRange(current_node_index)}
    \cup
    {MuZeroResponse(n, next_state, WinValue, FlatLogits) :
         n \in {0, Len0(nodes) - 1, Len0(nodes)} \ SeqRange(current_node_index)}

----------------------------------------------------------------------------
\* the state machine

\* no generator runs beside the tree
NoGenerator ==
    /\ games = <<>>
    /\ responses = <<>>
    /\ batch_size = 0
    /\ settings = None
    /\ next_index = 0
    /\ gen_panic = ""
    /\ tick = None
    /\ network = None
    /\ sender_open = TRUE
    /\ worker = "none"
    /\ pc = "none"
    /\ received = [commands |-> 0, networks |-> 0]
    /\ main = None

\* no function is called by another caller
NoCall == call = None

\* MuTree::new(root_board, mapper): one unexpanded root, no outstanding request
Init ==
    /\ nodes = [i \in {0} |-> MuNodeNew(None, None, [num |-> 1, den |-> 1])]
    /\ current_node_index = None
    /\ root_board \in (SUBSET Actions) \ {{}}
    /\ draw_depth \in 0..MaxDrawDepth
    /\ top_moves \in 1..MaxTopMoves       \* 0 is refused by apply's first assertion
    /\ fpu_mode \in FpuModes
    /\ next_state = 1
    /\ panic = ""
    /\ last = [op |-> "new", response |-> None, ret |-> None]
    /\ prev = [nodes |-> nodes, current_node_index |-> current_node_index]
    /\ pending = None
    /\ NoGenerator
    /\ NoCall

\* one call of muzero_step_gather, made while the stop predicate
\* root_visits >= MaxIterations is false (wrapper.rs, expand_tree)
Gather ==
    /\ panic = ""
    /\ nodes[0].visits < MaxIterations
    /\ LET out == muzero_step_gather(nodes, current_node_index, root_board,
                                     draw_depth, fpu_mode)
       IN  /\ nodes' = out.nodes
           /\ current_node_index' = out.current_node_index
           /\ panic' = out.panic
           /\ last' = [op |-> "gather", response |-> None, ret |-> out.ret]
           /\ pending' = IF out.panic = ""
                         THEN (IF out.ret = None THEN None ELSE Some(Unwrap(out.ret).node))
                         ELSE pending
    /\ prev' = [nodes |-> nodes, current_node_index |-> current_node_index]
    /\ UNCHANGED <<root_board, draw_depth, top_moves, fpu_mode, next_state>>
    /\ UNCHANGED <<gen_vars, main_vars>>

\* one call of muzero_step_apply with the given response
ApplyResponse(response) ==
    /\ panic = ""
    /\ \E out \in muzero_step_apply(nodes, current_node_index, root_board,
                                    top_moves, response) :
           /\ nodes' = out.nodes
           /\ current_node_index' = out.current_node_index
           /\ panic' = out.panic
           /\ last' = [op |-> "apply", response |-> Some(response), ret |-> None]
    /\ pending' = None
    /\ prev' = [nodes |-> nodes, current_node_index |-> current_node_index]
    /\ next_state' = next_state + 1
    /\ UNCHANGED <<root_board, draw_depth, top_moves, fpu_mode>>
    /\ UNCHANGED <<gen_vars, main_vars>>

\* one call of muzero_step_apply with a response of the evaluator
Apply == \E response \in Responses : ApplyResponse(response)

Next == Gather \/ Apply

Spec == Init /\ [][Next]_vars

\* a latent tree on a root board of any kind, one without an available move
\* included
AnyBoardInit ==
    /\ nodes = [i \in {0} |-> MuNodeNew(None, None, [num |-> 1, den |-> 1])]
    /\ current_node_index = None
    /\ root_board \in SUBSET Actions
    /\ draw_depth \in 0..MaxDrawDepth
    /\ top_moves \in 1..MaxTopMoves
    /\ fpu_mode \in FpuModes
    /\ next_state = 1
    /\ panic = ""
    /\ last = [op |-> "new", response |-> None, ret |-> None]
    /\ prev = [nodes |-> nodes, current_node_index |-> current_node_index]
    /\ pending = None
    /\ NoGenerator
    /\ NoCall

AnyBoardSpec == AnyBoardInit /\ [][Next]_vars

\* expand_tree (wrapper.rs): the gather of a round, when the stop predicate
\* was false
ExpandTreeGather ==
    /\ current_node_index = None
    /\ Gather

\* the responses the executors of expand_tree return for the request of the
\* round: for the node of the request, with a policy of the mapper's length
ExecutorResponses ==
    {MuZeroResponse(n, next_state, e.values, e.policy_logits) :
         n \in SeqRange(current_node_index), e \in Evaluations}

\* expand_tree: the evaluation and the apply of a round that gathered a
\* request
ExpandTreeApply == \E response \in ExecutorResponses : ApplyResponse(response)

ExpandTreeNext == ExpandTreeGather \/ ExpandTreeApply

\* expand_tree runs on: no round waits for ever
ExpandTreeSpec == Init /\ [][ExpandTreeNext]_vars /\ WF_vars(ExpandTreeNext)

----------------------------------------------------------------------------
\* what the last call was

Panicked == panic # ""

GatherCalled == last.op = "gather"

ApplyCalled == last.op = "apply"

\* the last call was an apply that returned
Applied == ApplyCalled /\ ~Panicked

LastResponse == Unwrap(last.response)

TreeUnchanged == nodes = prev.nodes

MarkerUnchanged == current_node_index = prev.current_node_index

----------------------------------------------------------------------------
\* C1: a gather called while a request is outstanding panics, returns no
\* request and leaves the tree and the marker as they were.
C1_GatherWhileOutstandingFails ==
    (GatherCalled /\ prev.current_node_index # None) =>
        /\ panic = "There is already a gathered node waiting to be applied"
        /\ last.ret = None
        /\ TreeUnchanged
        /\ MarkerUnchanged

\* a gather was called with the request for a non-root node outstanding
C1_Witness ==
    /\ GatherCalled
    /\ prev.current_node_index # None
    /\ prev.current_node_index # Some(0)
    /\ Panicked

\* C2: the marker is Some(n) exactly when the most recent gather returned a
\* request for node n and no apply was called since; a gather that returns
\* None leaves the marker None, and an apply leaves it None.
C2_MarkerTracksPendingRequest ==
    /\ current_node_index \in {None} \cup {Some(n) : n \in DOMAIN nodes}
    /\ current_node_index = pending
    /\ (GatherCalled /\ ~Panicked /\ last.ret = None) => current_node_index = None
    /\ (GatherCalled /\ ~Panicked /\ last.ret # None) =>
           current_node_index = Some(Unwrap(last.ret).node)
    /\ ApplyCalled => current_node_index = None

\* a gather has just ended in the draw cutoff, after an earlier request was applied
C2_Witness ==
    /\ GatherCalled
    /\ ~Panicked
    /\ last.ret = None
    /\ nodes[0].visits >= 2
    /\ current_node_index = None

\* C3 (as claimed): an apply whose response names another node than the
\* outstanding one, or that finds no request outstanding, panics and leaves
\* the nodes and the marker as they were.
C3_MismatchedApplyChangesNothing ==
    (ApplyCalled /\ prev.current_node_index # Some(LastResponse.node)) =>
        /\ panic = "Unexpected apply node"
        /\ TreeUnchanged
        /\ MarkerUnchanged

\* C4: an apply whose policy-logit vector has not the length of the action
\* space panics with no node created and no visit count or value sum changed.
C4_BadPolicyLengthChangesNoNode ==
    (ApplyCalled /\ Len0(LastResponse.policy_logits) # PolicyLen) =>
        /\ Panicked
        /\ TreeUnchanged

\* the response was for the outstanding node and only its policy length was wrong
C4_Witness ==
    /\ ApplyCalled
    /\ prev.current_node_index = Some(LastResponse.node)
    /\ Len0(LastResponse.policy_logits) # PolicyLen
    /\ panic = "policy length mismatch"

----------------------------------------------------------------------------
\* reading the tree

Expanded(n) == nodes[n].inner # None

Children(n) == Unwrap(nodes[n].inner).children

ExpandedNodes == {n \in DOMAIN nodes : Expanded(n)}

\* the action index a node was reached by
MoveOf(n) == Unwrap(nodes[n].last_move_index)

RECURSIVE Depth(_, _)
Depth(ns, n) == IF ns[n].parent = None THEN 0 ELSE 1 + Depth(ns, Unwrap(ns[n].parent))

\* the node whose children range holds n
RangeOwner(ns, n) ==
    CHOOSE o \in DOMAIN ns :
        ns[o].inner # None /\ n \in RangeIndices(Unwrap(ns[o].inner).children)

\* n and its ancestors, found through the children ranges
RECURSIVE PathToRoot(_, _)
PathToRoot(ns, n) == IF n = 0 THEN {0} ELSE {n} \cup PathToRoot(ns, RangeOwner(ns, n))

\* the sum of the function f over the set S
RECURSIVE SetSum(_, _)
SetSum(S, f) ==
    IF S = {} THEN 0
    ELSE LET x == CHOOSE y \in S : TRUE IN f[x] + SetSum(S \ {x}, f)

\* the priors of the children of n are the softmax of the logits of their
\* moves over the stored children, and sum to 1
SoftmaxOverStored(n, policy_logits) ==
    LET stored == RangeIndices(Children(n))
        e == [c \in stored |-> Exp(policy_logits[MoveOf(c)])]
        num == [c \in stored |-> nodes[c].net_policy.num]
        total == SetSum(stored, e)
    IN  \A c \in stored :
            /\ nodes[c].net_policy.den > 0
            /\ nodes[c].net_policy.num * total = e[c] * nodes[c].net_policy.den
            /\ nodes[c].net_policy.den = SetSum(stored, num)

\* the children of n are stored in order of non-increasing prior
SortedByPrior(n) ==
    \A c, d \in RangeIndices(Children(n)) :
        c < d => ~PolicyLess(nodes[c].net_policy, nodes[d].net_policy)

\* The moves available in the position of node n, for a board on which a
\* move, once played, is no longer available (a cell gets occupied); None
\* when the moves leading to n are not all available ones.
RECURSIVE BoardAt(_, _)
BoardAt(ns, n) ==
    IF ns[n].parent = None THEN Some(root_board)
    ELSE LET before == BoardAt(ns, Unwrap(ns[n].parent))
             mv == Unwrap(ns[n].last_move_index)
         IN  IF before = None \/ mv \notin Unwrap(before)
             THEN None
             ELSE Some(Unwrap(before) \ {mv})

Min(a, b) == IF a < b THEN a ELSE b

----------------------------------------------------------------------------
\* C5 (as claimed): the children of every expanded node, the root included,
\* are stored in order of non-increasing prior probability.
C5_AllChildrenSortedByPrior == \A n \in ExpandedNodes : SortedByPrior(n)

\* C6: the children ranges of the expanded nodes lie inside the arena behind
\* the root and are pairwise disjoint; every node but the root lies in exactly
\* one range, and its parent field names the owner of that range.
C6_ChildrenRangesPartitionArena ==
    /\ nodes[0].parent = None
    /\ \A n \in ExpandedNodes :
           /\ 0 < Children(n).start
           /\ Children(n).start <= Children(n).end
           /\ Children(n).end <= Len0(nodes)
    /\ \A n, o \in ExpandedNodes :
           n # o => RangeIndices(Children(n)) \cap RangeIndices(Children(o)) = {}
    /\ \A c \in DOMAIN nodes \ {0} :
           /\ Cardinality({n \in ExpandedNodes : c \in RangeIndices(Children(n))}) = 1
           /\ nodes[c].parent = Some(RangeOwner(nodes, c))
    /\ \A n \in ExpandedNodes : 0 \notin RangeIndices(Children(n))

\* three nodes are expanded, one of them at depth 2
C6_Witness ==
    /\ Cardinality(ExpandedNodes) >= 3
    /\ \E n \in ExpandedNodes : Depth(nodes, n) = 2

\* C7: once the root response is applied the root has exactly one child per
\* available move of the root board, each with that move's index and the
\* root as parent; right after that apply their priors are the softmax of
\* the response's logits over the available moves, and sum to 1.
C7_RootChildrenAreTheLegalMoves ==
    /\ Expanded(0) =>
           /\ RangeLen(Children(0)) = Cardinality(root_board)
           /\ {nodes[c].last_move_index : c \in RangeIndices(Children(0))}
                  = {Some(m) : m \in root_board}
           /\ \A c \in RangeIndices(Children(0)) : nodes[c].parent = Some(0)
    /\ (Applied /\ LastResponse.node = 0) =>
           /\ Expanded(0)
           /\ SoftmaxOverStored(0, LastResponse.policy_logits)

\* the root response was applied on a board with several moves and unequal logits
C7_Witness ==
    /\ Applied
    /\ LastResponse.node = 0
    /\ Cardinality(root_board) >= 2
    /\ \E c, d \in RangeIndices(Children(0)) :
           PolicyLess(nodes[c].net_policy, nodes[d].net_policy)

\* the stored moves of n are the highest-logit indices of the action space
HoldsHighestLogits(n, policy_logits) ==
    LET stored == {MoveOf(c) : c \in RangeIndices(Children(n))}
    IN  /\ stored \subseteq Actions
        /\ \A m \in stored : \A o \in Actions \ stored :
               policy_logits[m] >= policy_logits[o]

\* C8 (as claimed): a response applied at a non-root node whose position has
\* at least one available move creates top_moves children when the position
\* has more than top_moves available moves and one child per available move
\* otherwise.
C8_NonRootChildrenFollowLegalMoves ==
    (Applied /\ LastResponse.node # 0 /\ BoardAt(nodes, LastResponse.node) # None) =>
        LET n == LastResponse.node
            legal == Unwrap(BoardAt(nodes, n))
            stored == {MoveOf(c) : c \in RangeIndices(Children(n))}
        IN  legal # {} =>
                IF Cardinality(legal) > top_moves
                THEN RangeLen(Children(n)) = top_moves
                ELSE RangeLen(Children(n)) = Cardinality(legal) /\ stored = legal

\* C8 (amended): a response applied at a non-root node creates exactly
\* min(top_moves, policy length) children, whatever moves are available in
\* that position: the distinct highest-logit indices of the action space, in
\* order of non-increasing logit and prior, with priors that are the softmax
\* over the stored subset only.
C8_NonRootChildrenAreTopLogits ==
    (Applied /\ LastResponse.node # 0) =>
        LET n == LastResponse.node
            l == LastResponse.policy_logits
        IN  /\ Expanded(n)
            /\ RangeLen(Children(n)) = Min(top_moves, PolicyLen)
            /\ Cardinality({MoveOf(c) : c \in RangeIndices(Children(n))})
                   = RangeLen(Children(n))
            /\ HoldsHighestLogits(n, l)
            /\ \A c, d \in RangeIndices(Children(n)) :
                   c < d => l[MoveOf(c)] >= l[MoveOf(d)]
            /\ SortedByPrior(n)
            /\ SoftmaxOverStored(n, l)
            /\ \A c \in RangeIndices(Children(n)) : nodes[c].parent = Some(n)

\* a non-root node whose position has an available move was expanded with
\* fewer children than the action space has moves, and the stored moves are
\* not the available ones
C8_Witness ==
    /\ Applied
    /\ LastResponse.node # 0
    /\ RangeLen(Children(LastResponse.node)) < PolicyLen
    /\ BoardAt(nodes, LastResponse.node) # None
    /\ Unwrap(BoardAt(nodes, LastResponse.node)) # {}
    /\ Unwrap(BoardAt(nodes, LastResponse.node))
           # {MoveOf(c) : c \in RangeIndices(Children(LastResponse.node))}

\* C9: an apply at a node increments visits by exactly 1 at that node and at
\* each of its ancestors up to the root, and changes the visits of no other
\* node; the nodes it creates start with no visit.
C9_ApplyVisitsPathOnce ==
    Applied =>
        LET path == PathToRoot(nodes, LastResponse.node)
        IN  /\ 0 \in path
            /\ LastResponse.node \in path
            /\ Cardinality(path) = Depth(nodes, LastResponse.node) + 1
            /\ \A n \in DOMAIN prev.nodes :
                   nodes[n].visits =
                       prev.nodes[n].visits + (IF n \in path THEN 1 ELSE 0)
            /\ \A n \in DOMAIN nodes \ DOMAIN prev.nodes : nodes[n].visits = 0

\* a response was applied at depth 2 in a tree with a node off the path
C9_Witness ==
    /\ Applied
    /\ Depth(nodes, LastResponse.node) = 2
    /\ \E n \in DOMAIN prev.nodes : n \notin PathToRoot(nodes, LastResponse.node)

\* what the apply added to the value sum of node n
Received(n) ==
    LET new == nodes[n].sum_values
        old == prev.nodes[n].sum_values
    IN  WDL(new.win - old.win, new.draw - old.draw, new.loss - old.loss,
            new.moves_left - old.moves_left)

\* C10 (as claimed): a response with value (1, 0, 0) applied at depth d is
\* seen unchanged by the path's nodes at even depth and with win and loss
\* swapped by those at odd depth.
C10_ValueFlippedAtOddDepth ==
    (Applied /\ LastResponse.values = WinValue) =>
        \A n \in PathToRoot(nodes, LastResponse.node) :
            /\ Received(n).win = (IF Depth(nodes, n) % 2 = 0 THEN 1 ELSE 0)
            /\ Received(n).loss = (IF Depth(nodes, n) % 2 = 0 THEN 0 ELSE 1)

\* C10 (amended): the evaluated node receives the response value with win and
\* loss swapped, and each step to a parent swaps them again and adds one to
\* the remaining-plies estimate: the node k levels above the evaluated one
\* sees the value swapped when k is even and unchanged when k is odd.
C10_ValueFlippedAtEvenDistance ==
    Applied =>
        LET v == LastResponse.values
            d == Depth(nodes, LastResponse.node)
        IN  \A n \in PathToRoot(nodes, LastResponse.node) :
                LET k == d - Depth(nodes, n)
                IN  Received(n) =
                        IF k % 2 = 0
                        THEN WDL(v.loss, v.draw, v.win, v.moves_left + k)
                        ELSE WDL(v.win, v.draw, v.loss, v.moves_left + k)

\* the value (1, 0, 0) was applied at depth 2
C10_Witness ==
    /\ Applied
    /\ LastResponse.values = WinValue
    /\ Depth(nodes, LastResponse.node) = 2


----------------------------------------------------------------------------
\* the last call was a gather that found no request outstanding and returned
GatherReturned == GatherCalled /\ ~Panicked /\ prev.current_node_index = None

\* the request the last gather returned
LastRequest == Unwrap(last.ret)

\* the nodes whose visits the last call changed
Visited == {n \in DOMAIN prev.nodes : nodes[n].visits # prev.nodes[n].visits}

\* the deepest node the last call visited
Reached == CHOOSE n \in Visited : \A m \in Visited : Depth(nodes, m) <= Depth(nodes, n)

\* C11: a gather on a tree with no outstanding request whose descent reaches
\* the configured maximum depth (0 included) returns None, leaves the marker
\* None, creates no node and gives the reached node, which lies at exactly
\* that depth below expanded ancestors, and every ancestor of it exactly one
\* more visit with a draw value; every other gather that descends returns a
\* request for a node above that depth and changes no node.
C11_GatherAtMaxDepthBacksUpDraw ==
    (GatherReturned /\ prev.nodes[0].inner # None) =>
        IF last.ret = None
        THEN /\ current_node_index = None
             /\ DOMAIN nodes = DOMAIN prev.nodes
             /\ Visited # {}
             /\ Depth(nodes, Reached) = draw_depth
             /\ Visited = PathToRoot(nodes, Reached)
             /\ \A n \in PathToRoot(nodes, Reached) \ {Reached} : prev.nodes[n].inner # None
             /\ \A n \in DOMAIN nodes :
                    IF n \in Visited
                    THEN /\ nodes[n].visits = prev.nodes[n].visits + 1
                         /\ Received(n) = WDL(0, 1, 0, draw_depth - Depth(nodes, n))
                         /\ nodes[n] = [prev.nodes[n] EXCEPT
                                            !.visits = nodes[n].visits,
                                            !.sum_values = nodes[n].sum_values]
                    ELSE nodes[n] = prev.nodes[n]
        ELSE /\ TreeUnchanged
             /\ Depth(nodes, LastRequest.node) < draw_depth

\* a gather ended in the draw cutoff at depth 2, at a node never evaluated
C11_Witness ==
    /\ GatherReturned
    /\ last.ret = None
    /\ draw_depth = 2
    /\ Depth(nodes, Reached) = 2
    /\ nodes[Reached].inner = None

\* a gather with maximum depth 0 ended in the draw cutoff at the expanded root
C11_WitnessDepthZero ==
    /\ GatherReturned
    /\ last.ret = None
    /\ draw_depth = 0
    /\ Reached = 0

\* the holders of the state handle h: the nodes that store it and the
\* request of the last gather while it is outstanding
Holders(h) ==
    {<<"node", n>> : n \in {m \in ExpandedNodes : Unwrap(nodes[m].inner).state = h}}
    \cup {<<"request", r.node>> :
              r \in {q \in SeqRange(last.ret) :
                         current_node_index # None /\ q.state = Some(h)}}

\* the state handles the evaluator has handed out
Handles == 1..(next_state - 1)

\* C12 (as claimed): every state handle has at most one holder at any time,
\* and exactly one, the expanded node, once its response is applied.
C12_HandleHasOneOwner ==
    /\ \A h \in Handles : Cardinality(Holders(h)) <= 1
    /\ Applied => Holders(LastResponse.state) = {<<"node", LastResponse.node>>}

\* C13: a gather returns a Root request, for node 0 with the root board,
\* exactly when the root is unexpanded; any other request is an Expand
\* request for an unexpanded node other than the root, with the state handle
\* stored in that node's parent and that node's own action index.
C13_RequestKinds ==
    GatherReturned =>
        /\ (prev.nodes[0].inner = None) <=>
               (last.ret # None /\ LastRequest.kind = "Root")
        /\ (last.ret # None /\ LastRequest.kind = "Root") =>
               LastRequest = MuZeroRootRequest(0, root_board)
        /\ (last.ret # None /\ LastRequest.kind # "Root") =>
               LET n == LastRequest.node
               IN  /\ LastRequest.kind = "Expand"
                   /\ n \in DOMAIN nodes \ {0}
                   /\ nodes[n].inner = None
                   /\ current_node_index = Some(n)
                   /\ LastRequest.state =
                          Some(Unwrap(nodes[Unwrap(nodes[n].parent)].inner).state)
                   /\ LastRequest.move_index = nodes[n].last_move_index
                   /\ LastRequest.board = None

\* an Expand request was returned for a node at depth 2 whose action index is
\* not its position among its siblings
C13_Witness ==
    /\ GatherReturned
    /\ last.ret # None
    /\ LastRequest.kind = "Expand"
    /\ Depth(nodes, LastRequest.node) = 2
    /\ MoveOf(LastRequest.node) #
           LastRequest.node - Children(Unwrap(nodes[LastRequest.node].parent)).start


----------------------------------------------------------------------------
\* The self-play generator: kz-selfplay/src/server/generator.rs.  It drives
\* the direct-evaluation tree (kz_core::zero), whose requests carry a board.
\* The board capability, zero/tree.rs and zero/step.rs are not part of the
\* sources at hand; they are modelled from their description and from the
\* latent variant above, with which they share selection and propagation.

\* The model's game: a position is the number of plies played, every position
\* but the last offers every action, the last offers action 0 only, and the
\* game ends in a draw after GameLength plies.
StartPos == [ply |-> 0]

available_moves(board) == IF board.ply + 1 < GameLength THEN Actions ELSE {0}

play(board, mv) == [ply |-> board.ply + 1]

outcome(board) == IF board.ply >= GameLength THEN Some("Draw") ELSE None

\* zero::node::Node
ZeroNodeNew(parent, last_move, p) ==
    [ parent     |-> parent,
      last_move  |-> last_move,
      children   |-> None,
      net_values |-> None,
      net_policy |-> p,
      visits     |-> 0,
      sum_values |-> ZeroValue ]

\* Tree::new(root_board)
TreeNew(board) ==
    [ root_board         |-> board,
      nodes              |-> [i \in {0} |-> ZeroNodeNew(None, None, [num |-> 1, den |-> 1])],
      current_node_index |-> None ]

root_visits(tree) == tree.nodes[0].visits

ZeroRequest(node, board) == [node |-> node, board |-> board]

ZeroEvaluation(values, policy) == [values |-> values, policy |-> policy]

\* ZeroRequest::respond(eval)
respond(request, eval) == [node |-> request.node, board |-> request.board, eval |-> eval]

\* what a call on a tree leaves behind
TreeOutcome(tree, msg, ret) == [tree |-> tree, panic |-> msg, ret |-> ret]

RECURSIVE ZeroGatherLoop(_, _, _, _, _)
ZeroGatherLoop(tree, mode, curr_node, curr_board, fpu) ==
    LET ns == tree.nodes IN
    IF outcome(curr_board) # None
    THEN TreeOutcome([tree EXCEPT !.nodes = tree_propagate_values(ns, curr_node, DrawValue)],
                     "", None)
    ELSE IF ns[curr_node].children = None
    THEN TreeOutcome([tree EXCEPT !.current_node_index = Some(curr_node)], "",
                     Some(ZeroRequest(curr_node, curr_board)))
    ELSE LET children == Unwrap(ns[curr_node].children)
             fpu1 == IF ns[curr_node].visits > 0 THEN NodeValues(ns[curr_node]) ELSE fpu
             fpu2 == AvgFlip(fpu1)
             parent_total_visits == ns[curr_node].visits
             key(i) == LET child == ns[children.start + i]
                       IN  [uct |-> UctTotal(child, parent_total_visits,
                                             FpuSelect(mode, fpu2), ExplorationWeight),
                            policy |-> child.net_policy]
             selected_node == children.start + PositionMaxByKey(RangeLen(children), key)
         IN  ZeroGatherLoop(tree, mode, selected_node,
                            play(curr_board, Unwrap(ns[selected_node].last_move)), fpu2)

zero_step_gather(tree, mode) ==
    IF tree.current_node_index # None
    THEN TreeOutcome(tree, "There is already a gathered node waiting to be applied", None)
    ELSE ZeroGatherLoop(tree, mode, 0, tree.root_board, Avg(DrawValue, 1))

RECURSIVE ZeroPushChildren(_, _, _, _)
ZeroPushChildren(ns, parent_node, moves, policy) ==
    IF moves = <<>> THEN ns
    ELSE ZeroPushChildren(Push(ns, ZeroNodeNew(Some(parent_node), Some(Head(moves)),
                                               Head(policy))),
                          parent_node, Tail(moves), Tail(policy))

zero_step_apply(tree, response) ==
    LET moves == AvailableMoves(available_moves(response.board))
        taken == [tree EXCEPT !.current_node_index = None]
    IN  IF tree.current_node_index # Some(response.node)
        THEN TreeOutcome(taken, "Unexpected apply node", None)
        ELSE IF Len(response.eval.policy) # Len(moves)
        THEN TreeOutcome(taken, "policy length mismatch", None)
        ELSE LET start == Len0(tree.nodes)
                 grown == ZeroPushChildren(tree.nodes, response.node, moves,
                                           response.eval.policy)
                 set == [grown EXCEPT
                             ![response.node].children = Some(IdxRange(start, Len0(grown))),
                             ![response.node].net_values = Some(response.eval.values)]
             IN  TreeOutcome([taken EXCEPT !.nodes =
                                  tree_propagate_values(set, response.node,
                                                        response.eval.values)],
                             "", None)

\* the evaluator: a function of the board, which sees every position as
\* lost for the player to move (so a visited child looks better to its
\* parent than an unvisited one), with the softmax of ascending logits over
\* the available moves as policy
NetworkEval(board) ==
    LET moves == AvailableMoves(available_moves(board))
        total == SumExp(moves, AscendingLogits)
    IN  ZeroEvaluation(LossValue,
                       [i \in 1..Len(moves) |->
                            [num |-> Exp(AscendingLogits[moves[i]]), den |-> total]])


\* Tree::eval(): the root's average value and the visit counts of its
\* children (the visit distribution before division by their sum)
tree_eval(tree) ==
    LET children == Unwrap(tree.nodes[0].children)
    IN  ZeroEvaluation(NodeValues(tree.nodes[0]),
                       [i \in 1..RangeLen(children) |->
                            tree.nodes[children.start + i - 1].visits])

\* Tree::keep_moves: the subtree of the picked child, copied breadth first
\* into a new arena
RECURSIVE KeepLoop(_, _, _)
KeepLoop(old_nodes, new_nodes, i) ==
    IF i >= Len0(new_nodes) THEN new_nodes
    ELSE IF new_nodes[i].children = None THEN KeepLoop(old_nodes, new_nodes, i + 1)
    ELSE LET old_children == Unwrap(new_nodes[i].children)
             new_start == Len0(new_nodes)
             new_end == new_start + RangeLen(old_children)
             extended == [j \in 0..(new_end - 1) |->
                              IF j < new_start
                              THEN new_nodes[j]
                              ELSE [old_nodes[old_children.start + (j - new_start)]
                                        EXCEPT !.parent = Some(i)]]
         IN  KeepLoop(old_nodes,
                      [extended EXCEPT ![i].children = Some(IdxRange(new_start, new_end))],
                      i + 1)

keep_moves(tree, mv) ==
    LET children == Unwrap(tree.nodes[0].children)
        picked_child == CHOOSE c \in RangeIndices(children) :
                            tree.nodes[c].last_move = Some(mv)
        new_root == [tree.nodes[picked_child] EXCEPT !.parent = None, !.last_move = None]
    IN  [ root_board         |-> play(tree.root_board, mv),
          nodes              |-> KeepLoop(tree.nodes, [i \in {0} |-> new_root], 0),
          current_node_index |-> None ]

\* settings.dirichlet_eps of the model's settings, as the fraction EpsNum / EpsDen
EpsNum == 1

EpsDen == 4

\* the samples the Dirichlet distribution of size k may yield in the model:
\* all weight on the first child, and equal weights
NoiseSamples(k) ==
    { [i \in 1..k |-> IF i = 1 THEN [num |-> 1, den |-> 1] ELSE [num |-> 0, den |-> 1]],
      [i \in 1..k |-> [num |-> 1, den |-> k]] }

\* seeded fault: the weights of prior and noise are swapped
MixNoise_swapped(p, n) ==
    [num |-> EpsNum * p.num * n.den + (EpsDen - EpsNum) * n.num * p.den,
     den |-> EpsDen * p.den * n.den]

\* (1.0 - eps) * p + eps * n
MixNoise(p, n) ==
    [num |-> (EpsDen - EpsNum) * p.num * n.den + EpsNum * n.num * p.den,
     den |-> EpsDen * p.den * n.den]

\* add_dirichlet_noise, given the sample drawn (used when the root has more
\* than one child)
add_dirichlet_noise(tree, noise) ==
    LET children == Unwrap(tree.nodes[0].children)
    IN  IF RangeLen(children) > 1
        THEN [tree EXCEPT !.nodes =
                 [c \in DOMAIN tree.nodes |->
                      IF c \in RangeIndices(children)
                      THEN [tree.nodes[c] EXCEPT !.net_policy =
                                MixNoise(@, noise[c - children.start + 1])]
                      ELSE tree.nodes[c]]]
        ELSE tree

extract_root_net_eval(tree) ==
    LET children == Unwrap(tree.nodes[0].children)
    IN  ZeroEvaluation(Unwrap(tree.nodes[0].net_values),
                       [i \in 1..RangeLen(children) |->
                            tree.nodes[children.start + i - 1].net_policy])

\* SearchState::new, given the outcome of gen_bool(full_search_prob).  The
\* last three fields are history: how often noise was added in this search
\* state, the root visit count at which it was added, and the number of
\* gathers this search state made on a visited root before noise was added.
SearchStateNew(tree, is_full_search) ==
    [ tree            |-> tree,
      needs_dirichlet |-> TRUE,
      is_full_search  |-> is_full_search,
      root_net_eval   |-> None,
      noise_count     |-> 0,
      noise_visits    |-> None,
      early_gathers   |-> 0,
      gather_mode     |-> None ]

StepDone == [kind |-> "Done"]

StepRequest(request) == [kind |-> "Request", request |-> request]

\* what SearchState::step leaves behind
SearchOutcome(search, msg, result) == [search |-> search, panic |-> msg, result |-> result]

\* seeded fault: every search runs to the budget of a full search
target_iterations_always_full(search) == Unwrap(settings).full_iterations

target_iterations(search) ==
    IF search.is_full_search THEN Unwrap(settings).full_iterations
    ELSE Unwrap(settings).part_iterations

\* the search states the noise block of SearchState::step may leave, with
\* the value it assigns to needs_dirichlet
NoiseBlockSetting(search, needs_after) ==
    IF root_visits(search.tree) > 0 /\ search.needs_dirichlet
    THEN LET k == RangeLen(Unwrap(search.tree.nodes[0].children))
         IN  { [search EXCEPT
                    !.root_net_eval = Some(extract_root_net_eval(search.tree)),
                    !.tree = add_dirichlet_noise(search.tree, n),
                    !.needs_dirichlet = needs_after,
                    !.noise_count = @ + 1,
                    !.noise_visits = Some(root_visits(search.tree))] :
               n \in IF k > 1 THEN NoiseSamples(k) ELSE {<<>>} }
    ELSE {search}

\* seeded fault: the flag that noise is still to be added is never cleared
NoiseBlock_flag_kept(search) == NoiseBlockSetting(search, TRUE)

NoiseBlock(search) == NoiseBlockSetting(search, FALSE)

\* the FPU mode SearchState::step hands to zero_step_gather
GatherFpuMode == FpuParent

\* the rounds of the loop of SearchState::step: the set of its outcomes
RECURSIVE SearchLoop(_)
SearchLoop(search) ==
    IF /\ root_visits(search.tree) > 0
       /\ search.needs_dirichlet
       /\ (search.tree.nodes[0].net_values = None \/ search.tree.nodes[0].children = None)
    THEN {SearchOutcome(search, "root node has no children yet, it must have been visited at least once", None)}
    ELSE UNION {
        IF root_visits(s.tree) >= target_iterations(s)
        THEN {SearchOutcome(s, "", Some(StepDone))}
        ELSE LET g == zero_step_gather(s.tree, GatherFpuMode)
                 gathered == [s EXCEPT
                                  !.tree = g.tree,
                                  !.gather_mode = Some(GatherFpuMode),
                                  !.early_gathers =
                                      @ + (IF root_visits(s.tree) > 0 /\ s.noise_count = 0
                                           THEN 1 ELSE 0)]
             IN  IF g.panic # "" THEN {SearchOutcome(gathered, g.panic, None)}
                 ELSE IF g.ret # None
                 THEN {SearchOutcome(gathered, "", Some(StepRequest(Unwrap(g.ret))))}
                 ELSE SearchLoop(gathered)
        : s \in NoiseBlock(search) }

\* SearchState::step(ctx, response)
SearchStep(search, response) ==
    IF response = None THEN SearchLoop(search)
    ELSE LET a == zero_step_apply(search.tree, Unwrap(response))
             applied == [search EXCEPT !.tree = a.tree]
         IN  IF a.panic # "" THEN {SearchOutcome(applied, a.panic, None)}
             ELSE SearchLoop(applied)


----------------------------------------------------------------------------
\* LruCache<board, evaluation>: the entries from least to most recently used

cache_index(cache, board) == {i \in 1..Len(cache) : cache[i].board = board}

RemoveAt(seq, i) == [j \in 1..(Len(seq) - 1) |-> IF j < i THEN seq[j] ELSE seq[j + 1]]

\* LruCache::put
cache_put(cache, board, eval) ==
    LET cap == Unwrap(settings).cache_size
        entry == [board |-> board, eval |-> eval]
    IN  IF cap = 0 THEN cache
        ELSE IF cache_index(cache, board) # {}
        THEN Append(RemoveAt(cache, CHOOSE i \in cache_index(cache, board) : TRUE), entry)
        ELSE IF Len(cache) >= cap
        THEN Append(Tail(cache), entry)
        ELSE Append(cache, entry)

\* LruCache::get: the evaluation found, and the cache with that entry made
\* the most recently used one
cache_get(cache, board) ==
    IF cache_index(cache, board) = {}
    THEN [eval |-> None, cache |-> cache]
    ELSE LET i == CHOOSE j \in cache_index(cache, board) : TRUE
         IN  [eval |-> Some(cache[i].eval), cache |-> Append(RemoveAt(cache, i), cache[i])]

----------------------------------------------------------------------------
\* GameState

\* the outcomes of gen_bool(full_search_prob), for a probability strictly
\* between 0 and 1
FullSearchCoin == BOOLEAN

\* seeded fault: a new game starts with the start position in its cache
GameStateNew_warm_cache(index, search) ==
    [ index    |-> index,
      search   |-> search,
      positions |-> <<>>,
      cache    |-> <<[board |-> StartPos, eval |-> NetworkEval(StartPos)]>> ]

\* GameState::new, given the search state drawn
GameStateNew(index, search) ==
    [ index    |-> index,
      search   |-> search,
      positions |-> <<>>,
      cache    |-> <<>> ]

Counter(move_count, cache_hits) == [move_count |-> move_count, cache_hits |-> cache_hits]

\* MoveSelector::select over the children's visit counts: the child with the
\* most visits once move_count reached zero_temp_move_count or when the
\* temperature is 0, else any child that has a visit (any child when none has)
MoveSelect(move_count, visits) ==
    LET most == {i \in DOMAIN visits : \A j \in DOMAIN visits : visits[j] <= visits[i]}
        some == {i \in DOMAIN visits : visits[i] > 0}
    IN  IF Unwrap(settings).temperature = 0
           \/ move_count >= Unwrap(settings).zero_temp_move_count
        THEN most
        ELSE IF some = {} THEN DOMAIN visits ELSE some

Position(board, should_store, played_mv, zero_visits, net_evaluation, zero_evaluation) ==
    [ board           |-> board,
      should_store    |-> should_store,
      played_mv       |-> played_mv,
      zero_visits     |-> zero_visits,
      net_evaluation  |-> net_evaluation,
      zero_evaluation |-> zero_evaluation ]

\* seeded fault: the update carries the positions last played first
FinishedSimulation_reversed(index, game_outcome, positions) ==
    [ kind       |-> "FinishedSimulation",
      index      |-> index,
      simulation |-> [outcome |-> game_outcome,
                      positions |-> [k \in 1..Len(positions) |->
                                         positions[Len(positions) + 1 - k]]] ]

\* GeneratorUpdate::FinishedSimulation { thread_id, index, simulation }
FinishedSimulation(index, game_outcome, positions) ==
    [ kind       |-> "FinishedSimulation",
      index      |-> index,
      simulation |-> [outcome |-> game_outcome, positions |-> positions] ]

\* the move count handed to MoveSelector::select: self.positions.len()
SelectorMoveCount(game) == Len(game.positions)

\* seeded fault: the first child of the root is played, whatever was selected
PickedChild_first(children, picked_index) == children.start

\* the child of the root the selector picked: children.get(picked_index)
PickedChild(children, picked_index) == children.start + picked_index - 1

\* seeded fault: the next search always starts on a fresh tree
NextTree_always_fresh(tree, next_board, picked_move) == TreeNew(next_board)

\* the tree of the next search of a game that goes on
NextTree(tree, next_board, picked_move) ==
    IF Unwrap(settings).keep_tree
    THEN keep_moves(tree, picked_move)
    ELSE TreeNew(next_board)

\* history: the send of an update failed, the receiver being gone
SendError(update) == [kind |-> "SendError", update |-> update]

\* what GameState::search_done_step leaves behind: the game, the value it
\* returns, and the updates it sent
DoneOutcome(game, msg, done, sent) == [game |-> game, panic |-> msg, done |-> done, sent |-> sent]

\* GameState::search_done_step: the set of its outcomes
search_done_step(game) ==
    LET tree == game.search.tree IN
    IF game.search.root_net_eval = None
    THEN {DoneOutcome(game, "called Option::unwrap on a None value", FALSE, <<>>)}
    ELSE LET net_evaluation == Unwrap(game.search.root_net_eval)
             zero_evaluation == tree_eval(tree)
             children == Unwrap(tree.nodes[0].children)
         IN  UNION {
                 LET picked_child == PickedChild(children, picked_index)
                     picked_move == Unwrap(tree.nodes[picked_child].last_move)
                     positions == Append(game.positions,
                                         Position(tree.root_board, game.search.is_full_search,
                                                  picked_move, root_visits(tree),
                                                  net_evaluation, zero_evaluation))
                     next_board == play(tree.root_board, picked_move)
                     taken == [game.search EXCEPT !.root_net_eval = None]
                 IN  IF outcome(next_board) # None /\ ~sender_open
                     THEN {DoneOutcome([game EXCEPT !.positions = <<>>, !.search = taken],
                                       "called Result::unwrap on an Err value", FALSE,
                                       <<SendError("FinishedSimulation")>>)}
                     ELSE IF outcome(next_board) # None
                     THEN {DoneOutcome([game EXCEPT !.positions = <<>>, !.search = taken],
                                       "", TRUE,
                                       <<FinishedSimulation(game.index,
                                                            Unwrap(outcome(next_board)),
                                                            positions)>>)}
                     ELSE LET next_tree == NextTree(tree, next_board, picked_move)
                          IN  {DoneOutcome([game EXCEPT
                                                !.positions = positions,
                                                !.search = SearchStateNew(next_tree, coin)],
                                           "", FALSE, <<>>) : coin \in FullSearchCoin}
                 : picked_index \in MoveSelect(SelectorMoveCount(game), zero_evaluation.policy) }


\* history: a response was synthesized from the cache of a game
Served(game, request) ==
    [kind |-> "Served", game |-> game, node |-> request.node, board |-> request.board]

\* history: a game was stepped with a stored response, issued for a game
Delivered(game, response) ==
    [kind |-> "Delivered", game |-> game, issued_for |-> response.game]

\* history: a search of a game was declared done, in this state, and the
\* game went on with the search state next (None when the game was over)
SearchDone(game, search, next) ==
    [kind |-> "SearchDone", game |-> game, search |-> search, next |-> next]

\* history: a response was applied to the tree of a game
AppliedTo(game, response) ==
    [kind |-> "Applied", game |-> game, node |-> response.node, board |-> response.board]

\* what GameState::step leaves behind: the game, the StepResult it returns,
\* the counter, and the log so far: the updates sent and the history entries
GameOutcome(game, msg, result, counter, log) ==
    [game |-> game, panic |-> msg, result |-> result, counter |-> counter, log |-> log]

\* the loop of GameState::step: the set of its outcomes
RECURSIVE GameLoop(_, _, _, _)
GameLoop(game, response, counter, log) ==
    UNION {
        LET stepped == [game EXCEPT !.search = o.search]
            logged == IF response # None /\ o.panic = ""
                      THEN Append(log, AppliedTo(game.index, Unwrap(response)))
                      ELSE log
        IN
        IF o.panic # "" THEN {GameOutcome(stepped, o.panic, None, counter, logged)}
        ELSE IF Unwrap(o.result).kind = "Request"
        THEN LET request == Unwrap(o.result).request
                 hit == cache_get(game.cache, request.board)
             IN  IF hit.eval # None
                 THEN GameLoop([stepped EXCEPT !.cache = hit.cache],
                               Some(respond(request, Unwrap(hit.eval))),
                               Counter(counter.move_count, counter.cache_hits + 1),
                               Append(logged, Served(game.index, request)))
                 ELSE {GameOutcome(stepped, "", o.result, counter, logged)}
        ELSE LET moved == Counter(counter.move_count + 1, counter.cache_hits)
             IN
             UNION {
                 LET done == Append(logged,
                                    SearchDone(game.index, o.search,
                                               IF d.panic # "" \/ d.done THEN None
                                               ELSE Some(d.game.search)))
                 IN
                 IF d.panic # "" THEN {GameOutcome(d.game, d.panic, None, moved, done \o d.sent)}
                 ELSE IF d.done
                 THEN {GameOutcome(d.game, "", Some(StepDone), moved, done \o d.sent)}
                 ELSE GameLoop(d.game, None, moved, done)
                 : d \in search_done_step(stepped) }
        : o \in SearchStep(game.search, response) }

\* the log after the response, if any, was handed to GameState::step
LogDelivery(game, initial_response, log) ==
    IF initial_response = None THEN log
    ELSE Append(log, Delivered(game.index, Unwrap(initial_response)))

\* seeded fault: the evaluation is put under the board of the root
PutResponse_under_root(game, initial_response) ==
    IF initial_response = None THEN game
    ELSE [game EXCEPT !.cache = cache_put(@, game.search.tree.root_board,
                                          Unwrap(initial_response).eval)]

\* the cache put at the head of GameState::step
PutResponse(game, initial_response) ==
    IF initial_response = None THEN game
    ELSE [game EXCEPT !.cache = cache_put(@, Unwrap(initial_response).board,
                                          Unwrap(initial_response).eval)]

\* seeded fault: a response served from the cache is not counted as a hit
GameStep_hits_uncounted(game, initial_response, counter, log) ==
    { [o EXCEPT !.counter = Counter(o.counter.move_count, counter.cache_hits)] :
          o \in GameLoop(PutResponse(game, initial_response), initial_response,
                         counter, LogDelivery(game, initial_response, log)) }

\* GameState::step(ctx, initial_response, sender, counter)
GameStep(game, initial_response, counter, log) ==
    GameLoop(PutResponse(game, initial_response), initial_response, counter,
             LogDelivery(game, initial_response, log))

----------------------------------------------------------------------------
\* GeneratorState

\* the locals of collect_requests: self.games, requests, the counter, the
\* log and ctx.next_index.  A request of the batch carries, as
\* history, the index of the game it was gathered for.
Collected(gs, requests, counter, log, next, msg) ==
    [games |-> gs, requests |-> requests, counter |-> counter, log |-> log,
     next_index |-> next, panic |-> msg]

\* seeded fault: a game whose step returned Done is kept among the games
step_and_append_keeps_done(acc, game, response) ==
    IF acc.panic # "" THEN {acc}
    ELSE { IF o.panic # ""
           THEN Collected(acc.games, acc.requests, o.counter, o.log, acc.next_index, o.panic)
           ELSE IF Unwrap(o.result).kind = "Done"
           THEN Collected(Append(acc.games, o.game), acc.requests, o.counter, o.log,
                          acc.next_index, "")
           ELSE Collected(Append(acc.games, o.game),
                          Append(acc.requests,
                                 [node  |-> Unwrap(o.result).request.node,
                                  board |-> Unwrap(o.result).request.board,
                                  game  |-> o.game.index]),
                          o.counter, o.log, acc.next_index, "")
           : o \in GameStep(game, response, acc.counter, acc.log) }

\* the closure step_and_append
step_and_append(acc, game, response) ==
    IF acc.panic # "" THEN {acc}
    ELSE { IF o.panic # ""
           THEN Collected(acc.games, acc.requests, o.counter, o.log, acc.next_index, o.panic)
           ELSE IF Unwrap(o.result).kind = "Done"
           THEN Collected(acc.games, acc.requests, o.counter, o.log, acc.next_index, "")
           ELSE Collected(Append(acc.games, o.game),
                          Append(acc.requests,
                                 [node  |-> Unwrap(o.result).request.node,
                                  board |-> Unwrap(o.result).request.board,
                                  game  |-> o.game.index]),
                          o.counter, o.log, acc.next_index, "")
           : o \in GameStep(game, response, acc.counter, acc.log) }

\* step all existing games, from the i-th on
RECURSIVE StepExisting(_, _, _, _)
StepExisting(acc, existing_games, drained, i) ==
    IF i > Len(existing_games) THEN {acc}
    ELSE UNION { StepExisting(a, existing_games, drained, i + 1)
                 : a \in step_and_append(acc, existing_games[i], Some(drained[i])) }

\* start new games until there are batch_size of them
RECURSIVE StartNewGames(_)
StartNewGames(acc) ==
    IF acc.panic # "" \/ Len(acc.games) >= batch_size THEN {acc}
    ELSE UNION { StartNewGames(a)
                 : a \in UNION { step_and_append(
                                     [acc EXCEPT !.next_index = @ + 1],
                                     GameStateNew(acc.next_index,
                                                  SearchStateNew(TreeNew(StartPos), coin)),
                                     None)
                                 : coin \in FullSearchCoin } }

\* GeneratorState::collect_requests: the set of its outcomes
collect_requests ==
    LET start == Collected(<<>>, <<>>, Counter(0, 0), <<>>, next_index, "") IN
    IF Len(games) # Len(responses)
    THEN {[start EXCEPT !.panic = "Both iterators must have the same length"]}
    ELSE UNION { StartNewGames(a) : a \in StepExisting(start, games, responses, 1) }

Progress(cached_evals, real_evals, moves) ==
    [kind |-> "Progress", cached_evals |-> cached_evals, real_evals |-> real_evals,
     moves |-> moves]

\* CudnnNetwork::new(mapper, graph, max_batch_size, device); id tells, as
\* history, the networks loaded one after the other apart
NetworkNew(max_batch_size, id) == [max_batch_size |-> max_batch_size, id |-> id]

\* what evaluate_batch leaves behind: the evaluations it returns, and as
\* history the number of boards encoded and whether the executor was run
Evaluated(msg, evals, encoded, computed) ==
    [panic |-> msg, evals |-> evals, encoded |-> encoded, computed |-> computed]

\* the evaluation the network net computes for a board; net tells, as
\* history, which of the networks loaded computed it
Evaluate(net, board) ==
    [values |-> NetworkEval(board).values, policy |-> NetworkEval(board).policy,
     net |-> net.id]

\* seeded fault: the size of the batch is checked after the computation
evaluate_batch_late_check(net, boards) ==
    IF Len(boards) > net.max_batch_size
    THEN Evaluated("assertion failed: batch_size <= max_batch_size", <<>>,
                   Len(boards), TRUE)
    ELSE Evaluated("", [i \in 1..Len(boards) |-> Evaluate(net, boards[i])],
                   Len(boards), TRUE)

\* Network::evaluate_batch(boards)
evaluate_batch(net, boards) ==
    IF Len(boards) > net.max_batch_size
    THEN Evaluated("assertion failed: batch_size <= max_batch_size", <<>>, 0, FALSE)
    ELSE Evaluated("", [i \in 1..Len(boards) |-> Evaluate(net, boards[i])],
                   Len(boards), TRUE)

\* seeded fault: the responses are stored in the reverse order of the requests
StoreResponses_reversed(requests, evals) ==
    [i \in 1..Len(requests) |->
         LET r == requests[Len(requests) + 1 - i]
         IN  [node |-> r.node, board |-> r.board, eval |-> evals[Len(requests) + 1 - i],
              game |-> r.game]]

\* the evaluations of the batch, zipped with the requests into responses
StoreResponses(requests, evals) ==
    [i \in 1..Len(requests) |->
         [node |-> requests[i].node, board |-> requests[i].board,
          eval |-> evals[i], game |-> requests[i].game]]

\* seeded fault: the progress update reports the moves as the real evaluations
ReportProgress_swapped(counter) ==
    Progress(counter.cache_hits, counter.move_count, batch_size)

\* the progress update of a tick
ReportProgress(counter) ==
    Progress(counter.cache_hits, batch_size, counter.move_count)

\* the settings a generator may be given
SettingsChoices ==
    [ full_iterations      : {MaxIterations},
      part_iterations      : 1..(MaxIterations - 1),
      keep_tree            : BOOLEAN,
      cache_size           : {MaxCacheSize},
      temperature          : {1},
      zero_temp_move_count : {1},
      fpu_mode             : {FpuParent} ]
    \cup
    [ full_iterations      : {MaxIterations},
      part_iterations      : {MaxIterations - 1},
      keep_tree            : {FALSE},
      cache_size           : {MaxCacheSize},
      temperature          : {0, 1},
      zero_temp_move_count : {1},
      fpu_mode             : {FpuParent, FpuFixed(1)} ]

\* no latent tree is driven beside the generator
NoTree ==
    /\ nodes = [i \in {0} |-> MuNodeNew(None, None, [num |-> 1, den |-> 1])]
    /\ current_node_index = None
    /\ root_board = Actions
    /\ draw_depth = 0
    /\ top_moves = 1
    /\ fpu_mode = FpuParent
    /\ next_state = 1
    /\ panic = ""
    /\ last = [op |-> "new", response |-> None, ret |-> None]
    /\ prev = [nodes |-> nodes, current_node_index |-> current_node_index]
    /\ pending = None

\* GeneratorState::new(batch_size), with a network and one of the given
\* settings received
GenInitWith(choices) ==
    /\ NoTree
    /\ games = <<>>
    /\ responses = <<>>
    /\ batch_size \in 1..MaxBatchSize
    /\ settings \in {Some(x) : x \in choices}
    /\ next_index = 0
    /\ gen_panic = ""
    /\ tick = None
    /\ network = Some(NetworkNew(batch_size, 1))
    /\ sender_open = TRUE
    /\ worker = "running"
    /\ pc = "advance"
    /\ received = [commands |-> 2, networks |-> 1]
    /\ main = None
    /\ NoCall

\* GeneratorState::new(batch_size), with settings and a network received
GenInit == GenInitWith(SettingsChoices)

\* GeneratorState::step(ctx, start_pos, network, sender).  tick records, as
\* history, the number of the call, the index the next new game was to get
\* when the call began, the batch handed to the evaluator, the
\* number of evaluator calls, the counter, and the log: the updates sent and
\* the history entries of the games, in order.  The step returns an error
\* when the progress update cannot be sent: the worker has then failed.
GeneratorStep ==
    \E c \in collect_requests :
         LET base == [number |-> IF tick = None THEN 1 ELSE Unwrap(tick).number + 1,
                      first_index |-> next_index,
                      requests |-> c.requests, counter |-> c.counter]
             boards == [i \in 1..Len(c.requests) |-> c.requests[i].board]
             e == evaluate_batch(Unwrap(network), boards)
         IN
         /\ games' = c.games
         /\ next_index' = c.next_index
         /\ IF c.panic # ""
            THEN /\ gen_panic' = c.panic
                 /\ responses' = <<>>
                 /\ tick' = Some(base @@ [evaluator_calls |-> 0, log |-> c.log])
                 /\ worker' = "panicked"
            ELSE IF Len(c.requests) # batch_size
            THEN /\ gen_panic' = "assertion failed: requests.len() == self.batch_size"
                 /\ responses' = <<>>
                 /\ tick' = Some(base @@ [evaluator_calls |-> 0, log |-> c.log])
                 /\ worker' = "panicked"
            ELSE IF e.panic # ""
            THEN /\ gen_panic' = e.panic
                 /\ responses' = <<>>
                 /\ tick' = Some(base @@ [evaluator_calls |-> 1, log |-> c.log])
                 /\ worker' = "panicked"
            ELSE /\ gen_panic' = ""
                 /\ responses' = StoreResponses(c.requests, e.evals)
                 /\ tick' = Some(base @@
                                 [evaluator_calls |-> 1,
                                  log |-> Append(c.log,
                                                  IF sender_open
                                                  THEN ReportProgress(c.counter)
                                                  ELSE SendError("Progress"))])
                 /\ worker' = IF sender_open THEN worker ELSE "failed"

\* one tick of a generator that has its settings and its network
Tick ==
    /\ worker = "running"
    /\ next_index < MaxGames
    /\ GeneratorStep
    /\ UNCHANGED <<batch_size, settings, tree_vars>>
    /\ UNCHANGED <<network, sender_open, pc, received, main, call>>

GenNext == Tick

GenSpec == GenInit /\ [][GenNext]_vars

\* settings with an iteration budget of 0, for the full or for the part
\* searches
ZeroBudgetChoices ==
    [ full_iterations      : {0, MaxIterations},
      part_iterations      : {0},
      keep_tree            : BOOLEAN,
      cache_size           : {MaxCacheSize},
      temperature          : {1},
      zero_temp_move_count : {1},
      fpu_mode             : {FpuParent} ]

\* a generator with any iteration budget from 0 on
AnyBudgetInit == GenInitWith(SettingsChoices \cup ZeroBudgetChoices)

AnyBudgetSpec == AnyBudgetInit /\ [][GenNext]_vars


----------------------------------------------------------------------------
\* generator_main: the worker thread of a generator

\* the settings a supervisor sends to a worker
MainSettingsChoices ==
    [ full_iterations      : {MaxIterations},
      part_iterations      : {MaxIterations - 1},
      keep_tree            : {FALSE},
      cache_size           : {MaxCacheSize},
      temperature          : {1},
      zero_temp_move_count : {1},
      fpu_mode             : {FpuParent} ]

\* Command
Commands ==
    {[kind |-> k] : k \in {"StartupSettings", "Stop", "WaitForNewNetwork", "NewNetwork"}}
    \cup {[kind |-> "NewSettings", settings |-> x] : x \in MainSettingsChoices}

\* what try_recv may return; recv returns once it is not Empty
TryRecvResults == Commands \cup {[kind |-> "Empty"], [kind |-> "Disconnected"]}

\* GeneratorState::clear_caches
clear_caches(gs) == [i \in 1..Len(gs) |-> [gs[i] EXCEPT !.cache = <<>>]]

\* generator_main up to its loop
MainInit ==
    /\ NoTree
    /\ NoCall
    /\ games = <<>>
    /\ responses = <<>>
    /\ batch_size \in 1..MaxBatchSize
    /\ settings = None
    /\ next_index = 0
    /\ gen_panic = ""
    /\ tick = None
    /\ network = None
    /\ sender_open = TRUE
    /\ worker = "running"
    /\ pc = "recv"
    /\ received = [commands |-> 0, networks |-> 0]
    /\ main = None

\* the number of ticks run so far
TickNumber == IF tick = None THEN 0 ELSE Unwrap(tick).number

\* whether the worker has both its settings and its network
Configured == settings # None /\ network # None

\* history: the receive of a loop round, whether the worker had its settings
\* and its network when it was made, and whether a tick followed
Round(mode, result) ==
    [mode |-> mode, result |-> result, configured |-> Configured, ticked |-> FALSE]

\* the receive of a round: try_recv with settings and network, else recv
RecvMode == IF Configured THEN "try_recv" ELSE "recv"

\* seeded fault: the command to wait for a new network leaves the network
\* in place
Match_keeps_network(cmd) ==
    /\ worker' = IF cmd.kind \in {"Disconnected", "StartupSettings"} THEN "panicked"
                 ELSE IF cmd.kind = "Stop" THEN "stopped"
                 ELSE worker
    /\ gen_panic' = IF cmd.kind = "Disconnected" THEN "Channel disconnected"
                    ELSE IF cmd.kind = "StartupSettings"
                    THEN "Already received startup settings"
                    ELSE gen_panic
    /\ network' = IF cmd.kind = "NewNetwork"
                  THEN Some(NetworkNew(batch_size, received.networks + 1))
                  ELSE network
    /\ settings' = IF cmd.kind = "NewSettings" THEN Some(cmd.settings) ELSE settings
    /\ games' = IF cmd.kind = "NewNetwork" THEN clear_caches(games) ELSE games
    /\ received' = [commands |-> received.commands
                                     + (IF cmd \in Commands THEN 1 ELSE 0),
                    networks |-> received.networks
                                     + (IF cmd.kind = "NewNetwork" THEN 1 ELSE 0)]
    /\ pc' = "advance"

\* the match on the result of the receive
Match(cmd) ==
    /\ worker' = IF cmd.kind \in {"Disconnected", "StartupSettings"} THEN "panicked"
                 ELSE IF cmd.kind = "Stop" THEN "stopped"
                 ELSE worker
    /\ gen_panic' = IF cmd.kind = "Disconnected" THEN "Channel disconnected"
                    ELSE IF cmd.kind = "StartupSettings"
                    THEN "Already received startup settings"
                    ELSE gen_panic
    /\ network' = IF cmd.kind = "WaitForNewNetwork" THEN None
                  ELSE IF cmd.kind = "NewNetwork"
                  THEN Some(NetworkNew(batch_size, received.networks + 1))
                  ELSE network
    /\ settings' = IF cmd.kind = "NewSettings" THEN Some(cmd.settings) ELSE settings
    /\ games' = IF cmd.kind = "NewNetwork" THEN clear_caches(games) ELSE games
    /\ received' = [commands |-> received.commands
                                     + (IF cmd \in Commands THEN 1 ELSE 0),
                    networks |-> received.networks
                                     + (IF cmd.kind = "NewNetwork" THEN 1 ELSE 0)]
    /\ pc' = "advance"

\* seeded fault: a disconnected command channel is taken for an empty one
Recv_ignores_disconnect ==
    /\ worker = "running"
    /\ pc = "recv"
    /\ \E cmd \in TryRecvResults :
           /\ cmd \in Commands => received.commands < MaxCommands
           /\ RecvMode = "recv" => cmd.kind # "Empty"
           /\ main' = Some(Round(RecvMode, cmd.kind))
           /\ Match(IF cmd.kind = "Disconnected" THEN [kind |-> "Empty"] ELSE cmd)
    /\ UNCHANGED <<tree_vars, responses, batch_size, next_index, tick, sender_open, call>>

\* the head of a round of the loop: the receive, blocking while settings
\* or network are missing, and the match on its result
Recv ==
    /\ worker = "running"
    /\ pc = "recv"
    /\ \E cmd \in TryRecvResults :
           /\ cmd \in Commands => received.commands < MaxCommands
           /\ RecvMode = "recv" => cmd.kind # "Empty"
           /\ main' = Some(Round(RecvMode, cmd.kind))
           /\ Match(cmd)
    /\ UNCHANGED <<tree_vars, responses, batch_size, next_index, tick, sender_open, call>>

\* seeded fault: the generator is advanced only after an empty poll
Advance_only_when_idle ==
    /\ worker = "running"
    /\ pc = "advance"
    /\ IF Configured /\ Unwrap(main).result = "Empty"
       THEN /\ next_index < MaxGames
            /\ TickNumber < MaxTicks
            /\ GeneratorStep
            /\ main' = Some([Unwrap(main) EXCEPT !.ticked = TRUE])
       ELSE UNCHANGED <<games, responses, next_index, gen_panic, tick, worker, main>>
    /\ pc' = "recv"
    /\ UNCHANGED <<tree_vars, batch_size, settings, network, sender_open, received, call>>

\* the tail of a round of the loop: advance the generator when it has its
\* settings and its network
Advance ==
    /\ worker = "running"
    /\ pc = "advance"
    /\ IF Configured
       THEN /\ next_index < MaxGames
            /\ TickNumber < MaxTicks
            /\ GeneratorStep
            /\ main' = Some([Unwrap(main) EXCEPT !.ticked = TRUE])
       ELSE UNCHANGED <<games, responses, next_index, gen_panic, tick, worker, main>>
    /\ pc' = "recv"
    /\ UNCHANGED <<tree_vars, batch_size, settings, network, sender_open, received, call>>

\* the supervisor drops the receiver of the update channel; the worker
\* notices at its next send, so the drop is taken between two rounds
DropReceiver ==
    /\ worker = "running"
    /\ pc = "recv"
    /\ sender_open
    /\ sender_open' = FALSE
    /\ UNCHANGED <<tree_vars, gen_vars, network, worker, pc, received, main, call>>

MainNext == Recv \/ Advance \/ DropReceiver

MainSpec == MainInit /\ [][MainNext]_vars

----------------------------------------------------------------------------
\* the worker beside the other drivers: expand_tree on a latent tree, and a
\* caller of Network::evaluate_batch on its own

\* a round of expand_tree (wrapper.rs) on a latent tree
ExpandTreeStep ==
    /\ worker = "none"
    /\ call = None
    /\ Next

\* a worker, or a latent tree that expand_tree is called on
CancelInit == MainInit \/ Init

CancelNext == MainNext \/ ExpandTreeStep

CancelSpec == CancelInit /\ [][CancelNext]_vars

\* the boards of the model's game that can be evaluated
Boards == {[ply |-> t] : t \in 0..(GameLength - 1)}

\* the batches of up to len boards
Batches(len) == UNION {[1..n -> Boards] : n \in 0..len}

EvaluateCall(net, boards, result) ==
    [op |-> "evaluate_batch", net |-> net, boards |-> boards, result |-> result]

\* a caller is about to call evaluate_batch on a network of its own
EvaluateInit ==
    /\ NoTree
    /\ NoGenerator
    /\ call \in {Some(EvaluateCall(NetworkNew(m, 0), boards, None)) :
                     m \in 1..MaxBatchSize, boards \in Batches(MaxBatchSize + 1)}

\* the call returns or panics
EvaluateReturn ==
    /\ call # None
    /\ Unwrap(call).op = "evaluate_batch"
    /\ Unwrap(call).result = None
    /\ call' = Some(EvaluateCall(Unwrap(call).net, Unwrap(call).boards,
                                 Some(evaluate_batch(Unwrap(call).net, Unwrap(call).boards))))
    /\ UNCHANGED <<tree_vars, gen_vars>>
    /\ UNCHANGED <<network, sender_open, worker, pc, received, main>>

\* a worker, or a caller of evaluate_batch
EvaluatorInit == MainInit \/ EvaluateInit

EvaluatorNext == MainNext \/ EvaluateReturn

EvaluatorSpec == EvaluatorInit /\ [][EvaluatorNext]_vars

----------------------------------------------------------------------------
\* reading the history of the last tick

Ticked == tick # None

LastTick == Unwrap(tick)

\* the positions of the log that hold an entry of the given kind
LogKind(kind) == {k \in 1..Len(LastTick.log) : LastTick.log[k].kind = kind}

GameIndices == {games[i].index : i \in 1..Len(games)}

\* C14: every tick calls the evaluator exactly once, on a batch of exactly
\* batch_size requests, one from each active game and in the order of the
\* games; after it the generator holds exactly batch_size games, each
\* waiting for the answer to its request, and batch_size stored responses.
C14_TickFillsTheBatch ==
    /\ gen_panic = ""
    /\ Ticked =>
           /\ LastTick.evaluator_calls = 1
           /\ Len(LastTick.requests) = batch_size
           /\ Len(games) = batch_size
           /\ Len(responses) = batch_size
           /\ Cardinality(GameIndices) = batch_size
           /\ \A i \in 1..Len(games) :
                  /\ LastTick.requests[i].game = games[i].index
                  /\ games[i].search.tree.current_node_index
                         = Some(LastTick.requests[i].node)
    /\ ~Ticked => (games = <<>> /\ responses = <<>>)

\* a tick in which a game finished and was replaced has filled a batch of two
C14_Witness ==
    /\ Ticked
    /\ batch_size = 2
    /\ LogKind("FinishedSimulation") # {}
    /\ Len(games) = 2
    /\ LastTick.evaluator_calls = 1

\* C15: the i-th stored response was issued for the i-th active game and
\* answers the request that game's tree is waiting for, and every stored
\* response handed to a game in the last tick had been issued for that game.
C15_ResponsesReachTheirGames ==
    /\ Len(responses) = Len(games)
    /\ \A i \in 1..Len(games) :
           /\ responses[i].game = games[i].index
           /\ games[i].search.tree.current_node_index = Some(responses[i].node)
    /\ Ticked =>
           \A k \in LogKind("Delivered") :
               LastTick.log[k].game = LastTick.log[k].issued_for

\* responses were handed out in a tick in which the first of two games had
\* finished in the tick before, so that the second game had moved up
C15_Witness ==
    /\ Ticked
    /\ batch_size = 2
    /\ Cardinality(LogKind("Delivered")) = 2
    /\ \A i \in 1..Len(games) : games[i].index > 0

\* C16: the cache-hit counter of a tick is the number of responses served
\* from a cache in it; each of them is applied at once to the tree of the
\* game that asked, for a position that game's cache holds; and no request
\* of the batch is for a position its game's cache holds.
C16_CacheHitsBypassTheBatch ==
    Ticked =>
        /\ LastTick.counter.cache_hits = Cardinality(LogKind("Served"))
        /\ \A k \in LogKind("Served") :
               /\ k < Len(LastTick.log)
               /\ LastTick.log[k + 1] =
                      [LastTick.log[k] EXCEPT !.kind = "Applied"]
               /\ \A i \in 1..Len(games) :
                      games[i].index = LastTick.log[k].game =>
                          cache_index(games[i].cache, LastTick.log[k].board) # {}
        /\ \A i \in 1..Len(games) :
               cache_index(games[i].cache, LastTick.requests[i].board) = {}

\* a tick served a response from a cache and still filled a batch of two
C16_Witness ==
    /\ Ticked
    /\ batch_size = 2
    /\ LogKind("Served") # {}
    /\ Len(LastTick.requests) = 2
    /\ \E k \in LogKind("Served") : LastTick.log[k].game \in GameIndices

\* C17: the first tick of a generator serves nothing from a cache and
\* reports a cache-hit count of 0.
C17_FirstTickHasNoCacheHit ==
    (Ticked /\ LastTick.number = 1) =>
        /\ LastTick.counter.cache_hits = 0
        /\ LogKind("Served") = {}
        /\ LastTick.log = <<Progress(0, batch_size, 0)>>

\* the first tick of a generator with two games is over
C17_Witness ==
    /\ Ticked
    /\ LastTick.number = 1
    /\ batch_size = 2
    /\ Len(games) = 2

\* the search states of the games, and those declared done in the last tick
Searches ==
    {games[i].search : i \in 1..Len(games)}
    \cup (IF Ticked THEN {LastTick.log[k].search : k \in LogKind("SearchDone")} ELSE {})

\* C18 (as claimed): in every search state noise is added at most once, it
\* has been added once the root has a visit, and it was added when the root
\* had its first visit, before any other gather on the tree.
C18_NoiseRightAfterFirstRootVisit ==
    \A search \in Searches :
        /\ search.noise_count <= 1
        /\ root_visits(search.tree) > 0 => search.noise_count = 1
        /\ search.noise_visits \in {None, Some(1)}
        /\ search.early_gathers = 0

\* C18 (amended): in every search state noise is added at most once; it has
\* been added once the root has a visit, before that search state gathers
\* from a visited root; it is added when the root has its first visit, or,
\* when the tree was rerooted at a played move, at the start of the search
\* with the visits the new root already had.
C18_NoiseOncePerSearchState ==
    \A search \in Searches :
        /\ search.noise_count <= 1
        /\ root_visits(search.tree) > 0 => search.noise_count = 1
        /\ search.needs_dirichlet <=> search.noise_count = 0
        /\ search.early_gathers = 0
        /\ search.noise_visits # None =>
               \/ search.noise_visits = Some(1)
               \/ /\ Unwrap(settings).keep_tree
                  /\ search.tree.root_board.ply > 0
                  /\ Unwrap(search.noise_visits) > 1

\* noise was added to a rerooted tree whose root had several children and
\* more than one visit, and the search went on
C18_Witness ==
    \E search \in Searches :
        /\ search.noise_count = 1
        /\ Unwrap(search.noise_visits) > 1
        /\ RangeLen(Unwrap(search.tree.nodes[0].children)) > 1
        /\ root_visits(search.tree) > Unwrap(search.noise_visits)

\* |p - q| <= eps for the fractions p and q
WithinEps(p, q) ==
    LET d == p.num * q.den - q.num * p.den
    IN  (IF d < 0 THEN -d ELSE d) * EpsDen <= EpsNum * p.den * q.den

SamePrior(p, q) == p.num * q.den = q.num * p.den

\* the priors of the root's children, in order
RootPriors(tree) ==
    LET children == Unwrap(tree.nodes[0].children)
    IN  [i \in 1..RangeLen(children) |-> tree.nodes[children.start + i - 1].net_policy]

\* C19: after noise was mixed in, the prior of each child of the root
\* differs by at most eps from the prior it had before (the one kept as the
\* raw network evaluation), and with a single child it is unchanged.
C19_NoiseMovesPriorsByAtMostEps ==
    \A search \in Searches :
        search.root_net_eval # None =>
            LET before == Unwrap(search.root_net_eval).policy
                after == RootPriors(search.tree)
            IN  /\ Len(after) = Len(before)
                /\ \A i \in 1..Len(after) : WithinEps(after[i], before[i])
                /\ Len(after) = 1 => SamePrior(after[1], before[1])

\* noise changed the prior of a child of a root with several children
C19_Witness ==
    \E search \in Searches :
        /\ search.root_net_eval # None
        /\ search.noise_count = 1
        /\ Len(RootPriors(search.tree)) > 1
        /\ ~SamePrior(RootPriors(search.tree)[1], Unwrap(search.root_net_eval).policy[1])

\* noise was added at a root with a single child
C19_WitnessSingleChild ==
    \E search \in Searches :
        /\ search.root_net_eval # None
        /\ search.noise_count = 1
        /\ Len(RootPriors(search.tree)) = 1

\* the iteration budget of a full or a partial search
Budget(is_full_search) ==
    IF is_full_search THEN Unwrap(settings).full_iterations
    ELSE Unwrap(settings).part_iterations

\* the samples of a game: one per ply, taken at the position of that ply
\* when the root had reached the budget of that search, and with the raw
\* and the search evaluation of that root
SamplesOfSearchesDone(positions) ==
    \A k \in 1..Len(positions) :
        LET sample == positions[k]
        IN  /\ sample.board = [ply |-> k - 1]
            /\ sample.played_mv \in available_moves(sample.board)
            /\ sample.zero_visits >= Budget(sample.should_store)
            /\ ~Unwrap(settings).keep_tree =>
                   sample.zero_visits = Budget(sample.should_store)
            /\ Len(sample.net_evaluation.policy)
                   = Cardinality(available_moves(sample.board))
            /\ Len(sample.zero_evaluation.policy)
                   = Cardinality(available_moves(sample.board))
            /\ sample.zero_evaluation.values.den = sample.zero_visits

\* the samples of the game with the given index: its history while it is
\* active, the positions of its finished-game update once it has finished
SamplesOfGame(index) ==
    IF index \in GameIndices
    THEN games[CHOOSE i \in 1..Len(games) : games[i].index = index].positions
    ELSE LET k == CHOOSE f \in LogKind("FinishedSimulation") : LastTick.log[f].index = index
         IN  LastTick.log[k].simulation.positions

\* C20: a search is done exactly when its root has reached the budget of its
\* kind: no search waiting for an evaluation has reached it, and every
\* search declared done had; each search done selected one move of its root
\* and appended one sample with the root board, that move, the root's visit
\* count, the raw network evaluation of the root, the search evaluation and
\* the full-search flag, so a game holds one sample per ply played, a
\* finished game one per ply of the game.
C20_SearchDoneAtBudget ==
    /\ \A i \in 1..Len(games) :
           /\ root_visits(games[i].search.tree) < Budget(games[i].search.is_full_search)
           /\ Len(games[i].positions) = games[i].search.tree.root_board.ply
           /\ SamplesOfSearchesDone(games[i].positions)
    /\ Ticked =>
           /\ \A k \in LogKind("FinishedSimulation") :
                  /\ Len(LastTick.log[k].simulation.positions) = GameLength
                  /\ SamplesOfSearchesDone(LastTick.log[k].simulation.positions)
           /\ \A k \in LogKind("SearchDone") :
                  LET search == LastTick.log[k].search
                      tree == search.tree
                      samples == SamplesOfGame(LastTick.log[k].game)
                      sample == samples[tree.root_board.ply + 1]
                  IN  /\ root_visits(tree) >= Budget(search.is_full_search)
                      /\ Len(samples) > tree.root_board.ply
                      /\ sample.played_mv \in
                             {Unwrap(tree.nodes[c].last_move) :
                                  c \in RangeIndices(Unwrap(tree.nodes[0].children))}
                      /\ sample = Position(tree.root_board, search.is_full_search,
                                           sample.played_mv, root_visits(tree),
                                           Unwrap(search.root_net_eval), tree_eval(tree))

\* a game with a full and a partial search done has finished, one of its
\* searches having been declared done in the tick in which it finished
C20_Witness ==
    /\ Ticked
    /\ \E k \in LogKind("SearchDone") : LastTick.log[k].game \notin GameIndices
    /\ \E k \in LogKind("FinishedSimulation") :
           \E a, b \in 1..GameLength :
               /\ LastTick.log[k].simulation.positions[a].should_store
               /\ ~LastTick.log[k].simulation.positions[b].should_store

----------------------------------------------------------------------------
\* the moves played in the last tick

\* the number of nodes of the subtree of node n
RECURSIVE SubtreeSize(_, _)
SubtreeSize(ns, n) ==
    IF ns[n].children = None THEN 1
    ELSE LET children == Unwrap(ns[n].children)
             size[c \in children.start..children.end] ==
                 IF c = children.start THEN 0 ELSE size[c - 1] + SubtreeSize(ns, c - 1)
         IN  1 + size[children.end]

\* the move played when the search of the k-th log entry was declared done
PlayedMove(k) ==
    LET tree == LastTick.log[k].search.tree
    IN  SamplesOfGame(LastTick.log[k].game)[tree.root_board.ply + 1].played_mv

\* the child of the root that move led to
PlayedChild(k) ==
    LET tree == LastTick.log[k].search.tree
    IN  CHOOSE c \in RangeIndices(Unwrap(tree.nodes[0].children)) :
            tree.nodes[c].last_move = Some(PlayedMove(k))

\* the games started in the last tick
NewGames == {i \in 1..Len(games) : games[i].index >= LastTick.first_index}

\* C21: after a move is played, if the position reached is terminal the
\* game's samples, one per ply, are sent as one finished-game update right
\* away, the game is no longer among the games and new games fill the batch
\* in the same tick; otherwise the game goes on with a new search state on
\* the position reached, its tree being the subtree of the played move with
\* the statistics it had when keep_tree is set, and a single unvisited,
\* unexpanded root otherwise.
C21_MovePlayedEndsOrContinuesGame ==
    Ticked =>
        /\ Len(games) = batch_size
        /\ Cardinality(NewGames)
               = Cardinality(LogKind("FinishedSimulation"))
                 + (IF LastTick.number = 1 THEN batch_size ELSE 0)
        /\ \A i \in NewGames :
               /\ games[i].positions = <<>>
               /\ games[i].search.tree.root_board = StartPos
               /\ Len0(games[i].search.tree.nodes) = 1
        /\ \A k \in LogKind("SearchDone") :
               LET entry == LastTick.log[k]
                   tree == entry.search.tree
                   next_board == play(tree.root_board, PlayedMove(k))
                   finished == {f \in LogKind("FinishedSimulation") :
                                    LastTick.log[f].index = entry.game}
               IN  IF outcome(next_board) # None
                   THEN /\ entry.next = None
                        /\ entry.game \notin GameIndices
                        /\ finished = {k + 1}
                        /\ LastTick.log[k + 1].simulation.outcome = Unwrap(outcome(next_board))
                        /\ Len(LastTick.log[k + 1].simulation.positions)
                               = tree.root_board.ply + 1
                   ELSE /\ entry.next # None
                        /\ finished \cap 1..k = {}
                        /\ k + 1 \notin finished
                        /\ LET next == Unwrap(entry.next)
                               old == tree.nodes[PlayedChild(k)]
                               root == next.tree.nodes[0]
                           IN  /\ next.tree.root_board = next_board
                               /\ next.tree.current_node_index = None
                               /\ next.needs_dirichlet
                               /\ next.root_net_eval = None
                               /\ root.parent = None
                               /\ IF Unwrap(settings).keep_tree
                                  THEN /\ root.visits = old.visits
                                       /\ root.sum_values = old.sum_values
                                       /\ root.net_policy = old.net_policy
                                       /\ (root.children = None) = (old.children = None)
                                       /\ Len0(next.tree.nodes)
                                              = SubtreeSize(tree.nodes, PlayedChild(k))
                                       /\ \A n \in DOMAIN next.tree.nodes :
                                              n # 0 =>
                                                  \E m \in DOMAIN tree.nodes :
                                                      /\ next.tree.nodes[n].visits
                                                             = tree.nodes[m].visits
                                                      /\ next.tree.nodes[n].last_move
                                                             = tree.nodes[m].last_move
                                  ELSE /\ Len0(next.tree.nodes) = 1
                                       /\ root.visits = 0
                                       /\ root.children = None

\* in one tick a game finished and was replaced, and a game went on with
\* the subtree of the move it played, whose root had been visited and expanded
C21_Witness ==
    /\ Ticked
    /\ LastTick.number > 1
    /\ LogKind("FinishedSimulation") # {}
    /\ NewGames # {}
    /\ \E k \in LogKind("SearchDone") :
           /\ LastTick.log[k].next # None
           /\ Unwrap(settings).keep_tree
           /\ Unwrap(LastTick.log[k].next).tree.nodes[0].visits > 0
           /\ Len0(Unwrap(LastTick.log[k].next).tree.nodes) > 1

\* a game went on with a fresh tree
C21_WitnessFreshTree ==
    /\ Ticked
    /\ \E k \in LogKind("SearchDone") :
           /\ LastTick.log[k].next # None
           /\ ~Unwrap(settings).keep_tree
           /\ LastTick.log[k].search.tree.nodes[PlayedChild(k)].visits > 0

\* the visit counts of the children of the root when the search of the k-th
\* log entry was declared done
RootChildVisits(k) == tree_eval(LastTick.log[k].search.tree).policy

\* the search of the k-th log entry was declared done with the temperature
\* at zero: at or after the configured move count, or with temperature 0
ZeroTemperature(k) ==
    \/ Unwrap(settings).temperature = 0
    \/ LastTick.log[k].search.tree.root_board.ply >= Unwrap(settings).zero_temp_move_count

\* C22: when as many moves as the configured threshold or more have been
\* played in the game, or the temperature is 0, the move played is that of a
\* child of the root no other child has more visits than.
C22_ZeroTemperaturePlaysMostVisited ==
    Ticked =>
        \A k \in LogKind("SearchDone") :
            ZeroTemperature(k) =>
                LET tree == LastTick.log[k].search.tree
                IN  /\ Len(SamplesOfGame(LastTick.log[k].game)) > tree.root_board.ply
                    /\ \A c \in RangeIndices(Unwrap(tree.nodes[0].children)) :
                           tree.nodes[c].visits <= tree.nodes[PlayedChild(k)].visits

\* after the threshold a move was played at a root whose children had
\* different visit counts
C22_Witness ==
    /\ Ticked
    /\ \E k \in LogKind("SearchDone") :
           /\ LastTick.log[k].search.tree.root_board.ply
                  >= Unwrap(settings).zero_temp_move_count
           /\ Unwrap(settings).temperature > 0
           /\ \E i, j \in DOMAIN RootChildVisits(k) :
                  RootChildVisits(k)[i] < RootChildVisits(k)[j]

\* with temperature 0 the first move of a game was played at such a root
C22_WitnessTemperatureZero ==
    /\ Ticked
    /\ \E k \in LogKind("SearchDone") :
           /\ LastTick.log[k].search.tree.root_board.ply = 0
           /\ Unwrap(settings).temperature = 0
           /\ \E i, j \in DOMAIN RootChildVisits(k) :
                  RootChildVisits(k)[i] < RootChildVisits(k)[j]

\* C27: every tick sends one progress update, as the last thing it does and
\* after its one evaluator call; it reports batch_size real evaluations, as
\* many cache hits as responses were served from a cache in the tick, and
\* as many moves as searches were declared done in it, the last move of a
\* game that finished included.
C27_ProgressCountsTheTick ==
    Ticked =>
        /\ LastTick.evaluator_calls = 1
        /\ LogKind("Progress") = {Len(LastTick.log)}
        /\ LastTick.log[Len(LastTick.log)] =
               Progress(Cardinality(LogKind("Served")), batch_size,
                        Cardinality(LogKind("SearchDone")))
        /\ \A f \in LogKind("FinishedSimulation") :
               /\ f > 1
               /\ LastTick.log[f - 1].kind = "SearchDone"
               /\ LastTick.log[f - 1].game = LastTick.log[f].index

\* a tick in which a game finished reported two moves or more and a cache
\* hit, their numbers differing from each other and from batch_size
C27_Witness ==
    /\ Ticked
    /\ LogKind("FinishedSimulation") # {}
    /\ LastTick.counter.move_count >= 2
    /\ LastTick.counter.cache_hits >= 1
    /\ LastTick.counter.move_count # LastTick.counter.cache_hits
    /\ LastTick.counter.move_count # batch_size
    /\ LogKind("Progress") # {}

\* C29: every gather of a game is made with the FPU mode of the settings.
C29_GathersUseConfiguredFpu ==
    \A search \in Searches :
        search.gather_mode \in {None, Some(Unwrap(settings).fpu_mode)}

----------------------------------------------------------------------------
\* selection in the latent tree

\* the baseline handed to the children of n: the value of n once it has a
\* visit, else the baseline n was handed itself, seen from the other side
RECURSIVE BaselineBelow(_, _)
BaselineBelow(ns, n) ==
    AvgFlip(IF ns[n].visits > 0 THEN NodeValues(ns[n])
            ELSE IF n = 0 THEN Avg(DrawValue, 1)
            ELSE BaselineBelow(ns, RangeOwner(ns, n)))

\* the selection score of the node c among the children of its parent
Score(ns, c) ==
    LET p == RangeOwner(ns, c)
    IN  UctTotal(ns[c], ns[p].visits, FpuSelect(fpu_mode, BaselineBelow(ns, p)),
                 ExplorationWeight)

Siblings(ns, c) == RangeIndices(Unwrap(ns[RangeOwner(ns, c)].inner).children) \ {c}

\* the node the last gather ended at: that of its request, or the one the
\* draw cutoff stopped at
GatheredNode == IF last.ret = None THEN Reached ELSE LastRequest.node

\* C28: the result of a gather is a function of the tree: at every node of
\* the descent the child taken is the one no sibling beats, a sibling
\* beating it by a higher score, by a higher prior at equal score, or by a
\* later position at equal score and prior.
C28_GatherSelectsByScoreThenPrior ==
    (GatherReturned /\ prev.nodes[0].inner # None /\ (last.ret = None => Visited # {})) =>
        \A n \in PathToRoot(prev.nodes, GatheredNode) \ {0} :
            \A s \in Siblings(prev.nodes, n) :
                \/ Score(prev.nodes, s) < Score(prev.nodes, n)
                \/ /\ Score(prev.nodes, s) = Score(prev.nodes, n)
                   /\ \/ PolicyLess(prev.nodes[s].net_policy, prev.nodes[n].net_policy)
                      \/ /\ SamePrior(prev.nodes[s].net_policy, prev.nodes[n].net_policy)
                         /\ s < n

\* a gather took a child that a later sibling equalled in score and that
\* had the higher prior
C28_Witness ==
    /\ GatherReturned
    /\ prev.nodes[0].inner # None
    /\ last.ret # None
    /\ \E n \in PathToRoot(prev.nodes, GatheredNode) \ {0} :
           \E s \in Siblings(prev.nodes, n) :
               /\ s > n
               /\ Score(prev.nodes, s) = Score(prev.nodes, n)
               /\ PolicyLess(prev.nodes[s].net_policy, prev.nodes[n].net_policy)

\* a gather took a child that had a lower prior than a sibling, its score
\* being higher
C28_WitnessScoreDecides ==
    /\ GatherReturned
    /\ prev.nodes[0].inner # None
    /\ \E n \in PathToRoot(prev.nodes, GatheredNode) \ {0} :
           \E s \in Siblings(prev.nodes, n) :
               /\ Score(prev.nodes, s) < Score(prev.nodes, n)
               /\ PolicyLess(prev.nodes[n].net_policy, prev.nodes[s].net_policy)

----------------------------------------------------------------------------
\* top_k_indices_sorted called on its own

\* the slices of up to MaxValuesLen values: small numbers and NaN
ValueSlices ==
    UNION {[0..(n - 1) -> {0, 1, 2, NaN}] : n \in 0..MaxValuesLen}

TopKCall(values, k, result) ==
    [op |-> "top_k_indices_sorted", values |-> values, k |-> k, result |-> result]

\* a caller is about to call top_k_indices_sorted(values, k)
TopKInit ==
    /\ NoTree
    /\ NoGenerator
    /\ call \in {Some(TopKCall(values, k, None)) :
                     values \in ValueSlices, k \in 0..(MaxValuesLen + 1)}

\* the call returns
TopKReturn ==
    /\ call # None
    /\ Unwrap(call).op = "top_k_indices_sorted"
    /\ Unwrap(call).result = None
    /\ \E result \in top_k_indices_sorted(Unwrap(call).values, Unwrap(call).k) :
           call' = Some(TopKCall(Unwrap(call).values, Unwrap(call).k, Some(result)))
    /\ UNCHANGED <<tree_vars, gen_vars>>
    /\ UNCHANGED <<network, sender_open, worker, pc, received, main>>

TopKNext == TopKReturn

TopKSpec == TopKInit /\ [][TopKNext]_vars

\* the place of a value in the order of the function: NaN above every number
Rank(v) == IF v = NaN THEN 1000 ELSE v

\* C30: top_k_indices_sorted(values, k) returns min(k, len) distinct indices
\* of values; no index left out holds a higher value than one returned, the
\* values at the indices returned do not increase, NaN counting as the
\* highest value; k = 0 gives the empty list and k >= len every index.
C30_TopKIndicesSorted ==
    (call # None /\ Unwrap(call).op = "top_k_indices_sorted" /\ Unwrap(call).result # None) =>
        LET values == Unwrap(call).values
            k == Unwrap(call).k
            n == Len0(values)
            s == Unwrap(Unwrap(call).result)
        IN  /\ Len(s) = Min(k, n)
            /\ SeqRange(s) \subseteq 0..(n - 1)
            /\ IsInjective(s)
            /\ \A p, q \in DOMAIN s :
                   p < q => Rank(values[s[p]]) >= Rank(values[s[q]])
            /\ \A j \in (0..(n - 1)) \ SeqRange(s) :
                   \A p \in DOMAIN s : Rank(values[j]) <= Rank(values[s[p]])
            /\ k = 0 => s = <<>>
            /\ k >= n => SeqRange(s) = 0..(n - 1)

\* the call top_k_indices_sorted([NaN, 2, 1], 2) of the function's test
\* returned [0, 1]
C30_Witness ==
    /\ call # None
    /\ Unwrap(call).op = "top_k_indices_sorted"
    /\ Unwrap(call).values = [i \in 0..2 |-> IF i = 0 THEN NaN ELSE 3 - i]
    /\ Unwrap(call).k = 2
    /\ Unwrap(call).result = Some(<<0, 1>>)

\* with two NaN both orders of their indices were returned: this is one
C30_WitnessTwoNaN ==
    /\ call # None
    /\ Unwrap(call).op = "top_k_indices_sorted"
    /\ Unwrap(call).values = [i \in 0..2 |-> IF i = 1 THEN 2 ELSE NaN]
    /\ Unwrap(call).k = 2
    /\ Unwrap(call).result = Some(<<2, 0>>)

----------------------------------------------------------------------------
\* the rounds of generator_main

RoundStarted == main # None

LastRound == Unwrap(main)

\* the round of the last receive is over: the worker is back at the
\* receive, or has ended
RoundOver == pc = "recv" \/ worker # "running"

\* the results of a receive after which the loop goes on to advance
GoesOn == {"Empty", "NewSettings", "NewNetwork", "WaitForNewNetwork"}

\* C23 (as claimed): a worker that lacks its settings or its network blocks
\* on the receive and runs no tick; a worker that has both polls, and a tick
\* follows every poll, whatever it returned.
C23_TickAfterEveryPoll ==
    RoundStarted =>
        /\ LastRound.mode = (IF LastRound.configured THEN "try_recv" ELSE "recv")
        /\ LastRound.mode = "recv" => LastRound.result # "Empty"
        /\ (RoundOver /\ ~Configured) => ~LastRound.ticked
        /\ (RoundOver /\ LastRound.mode = "try_recv") => LastRound.ticked

\* C23 (amended): a worker that lacks its settings or its network blocks on
\* the receive, and no tick runs while either is missing; a worker that has
\* both polls once, and a tick follows unless what the poll returned ended
\* the worker (Stop, StartupSettings, a disconnected channel) or took its
\* network away (WaitForNewNetwork).
C23_TickAfterPollUnlessEndedOrPaused ==
    RoundStarted =>
        /\ LastRound.mode = (IF LastRound.configured THEN "try_recv" ELSE "recv")
        /\ LastRound.mode = "recv" => LastRound.result # "Empty"
        /\ (RoundOver /\ ~Configured) => ~LastRound.ticked
        /\ RoundOver =>
               (LastRound.ticked <=> (Configured /\ LastRound.result \in GoesOn))
        /\ LastRound.result \notin GoesOn => worker # "running"

\* a poll returned a command and a tick followed it
C23_Witness ==
    /\ RoundStarted
    /\ LastRound.mode = "try_recv"
    /\ LastRound.result = "NewSettings"
    /\ LastRound.ticked
    /\ TickNumber > 1

\* a poll returned the command to wait for a new network, and the round
\* ended without a tick
C23_WitnessPaused ==
    /\ RoundStarted
    /\ LastRound.mode = "try_recv"
    /\ LastRound.result = "WaitForNewNetwork"
    /\ RoundOver
    /\ ~LastRound.ticked

\* a blocking receive gave the worker what it lacked and a tick followed in
\* the same round
C23_WitnessBlockingThenTick ==
    /\ RoundStarted
    /\ LastRound.mode = "recv"
    /\ LastRound.ticked

\* every active game's tree waits for the answer to a request, and the
\* answer is stored
RequestsStored ==
    /\ Len(responses) = Len(games)
    /\ \A i \in 1..Len(games) :
           games[i].search.tree.current_node_index = Some(responses[i].node)

\* the stop predicate of expand_tree holds
StopPredicate == nodes[0].visits >= MaxIterations

\* C24 (as claimed): when the stop predicate of expand_tree holds, and when
\* a Stop command has ended the loop of the worker, no tree has a request
\* outstanding.
C24_NoRequestOutstandingAtStop ==
    /\ (worker = "none" /\ StopPredicate) => current_node_index = None
    /\ worker = "stopped" =>
           \A i \in 1..Len(games) : games[i].search.tree.current_node_index = None

\* C24 (amended): when the stop predicate of expand_tree holds the tree has
\* no request outstanding; a Stop command ends the loop of the worker
\* between two ticks, the last tick complete with its progress update, and
\* then every active game's tree still has its request outstanding, the
\* answer evaluated and stored but not applied.
C24_StopBetweenTicks ==
    /\ (worker = "none" /\ StopPredicate) => current_node_index = None
    /\ worker = "stopped" =>
           /\ LastRound.result = "Stop"
           /\ ~LastRound.ticked
           /\ RequestsStored
           /\ Ticked =>
                  /\ Len(games) = batch_size
                  /\ LastTick.log[Len(LastTick.log)].kind = "Progress"
           /\ ~Ticked => games = <<>>

\* a Stop command ended a worker that had run ticks on two games
C24_Witness ==
    /\ worker = "stopped"
    /\ Ticked
    /\ Len(games) = 2
    /\ RequestsStored

\* expand_tree stopped on a tree it had grown
C24_WitnessExpandTree ==
    /\ worker = "none"
    /\ StopPredicate
    /\ Len0(nodes) > 1
    /\ panic = ""

\* the sends of the last tick that failed
FailedSends == IF Ticked THEN {LastTick.log[k].update : k \in LogKind("SendError")} ELSE {}

\* C25: a disconnected command channel, a failed send of the progress update
\* and a failed send of a finished game each end the worker, the first and
\* the last by a panic, the second by the error returned; a tick whose send
\* failed is not followed by another send, and a worker that has ended runs
\* no tick and changes nothing of its generator.
C25_DisconnectEndsWorker ==
    /\ [](/\ (RoundStarted /\ LastRound.result = "Disconnected") =>
                 /\ worker = "panicked"
                 /\ gen_panic = "Channel disconnected"
                 /\ ~LastRound.ticked
          /\ "Progress" \in FailedSends => worker = "failed"
          /\ "FinishedSimulation" \in FailedSends =>
                 /\ worker = "panicked"
                 /\ "Progress" \notin FailedSends
                 /\ LogKind("Progress") = {}
          /\ FailedSends # {} =>
                 /\ ~sender_open
                 /\ LogKind("SendError") = {Len(LastTick.log)}
          /\ (Ticked /\ worker = "running") => FailedSends = {})
    /\ [][worker # "running" => UNCHANGED vars]_vars

\* the send of a finished game failed and the worker panicked
C25_Witness ==
    /\ "FinishedSimulation" \in FailedSends
    /\ worker = "panicked"

\* the send of the progress update failed and the worker ended with the error
C25_WitnessProgress ==
    /\ "Progress" \in FailedSends
    /\ worker = "failed"

\* the command channel was found disconnected by a poll between two ticks
C25_WitnessCommandChannel ==
    /\ RoundStarted
    /\ LastRound.result = "Disconnected"
    /\ LastRound.mode = "try_recv"
    /\ Ticked
    /\ worker = "panicked"

\* C26: evaluate_batch on more boards than max_batch_size panics before it
\* has encoded a board or run the executor, and on a batch within the limit
\* it encodes every board, runs the executor and returns one evaluation per
\* board; the network of a worker has the worker's batch_size as its limit,
\* and a tick of the worker hands it exactly batch_size boards and never
\* panics in evaluate_batch.
C26_OversizedBatchRejected ==
    /\ (call # None /\ Unwrap(call).op = "evaluate_batch" /\ Unwrap(call).result # None) =>
           LET boards == Unwrap(call).boards
               out == Unwrap(Unwrap(call).result)
           IN  IF Len(boards) > Unwrap(call).net.max_batch_size
               THEN /\ out.panic # ""
                    /\ out.encoded = 0
                    /\ ~out.computed
                    /\ out.evals = <<>>
               ELSE /\ out.panic = ""
                    /\ out.encoded = Len(boards)
                    /\ out.computed
                    /\ Len(out.evals) = Len(boards)
    /\ network # None => Unwrap(network).max_batch_size = batch_size
    /\ gen_panic # "assertion failed: batch_size <= max_batch_size"
    /\ (Ticked /\ LastTick.evaluator_calls = 1) =>
           Len(LastTick.requests) = batch_size

\* a call with one board more than the limit of two was rejected
C26_Witness ==
    /\ call # None
    /\ Unwrap(call).op = "evaluate_batch"
    /\ Unwrap(call).result # None
    /\ Unwrap(call).net.max_batch_size = 2
    /\ Len(Unwrap(call).boards) = 3
    /\ Unwrap(Unwrap(call).result).panic # ""

\* a worker with batch_size 2 ran a second tick on the network it was sent
C26_WitnessWorker ==
    /\ worker = "running"
    /\ batch_size = 2
    /\ TickNumber = 2
    /\ network # None
    /\ LastTick.evaluator_calls = 1

----------------------------------------------------------------------------
\* a gather that finds no child to select

\* the last call was a gather on a tree without outstanding request whose
\* root was expanded with no child, with the cutoff depth not yet reached
GatherAtChildlessRoot ==
    /\ GatherCalled
    /\ prev.current_node_index = None
    /\ prev.nodes[0].inner # None
    /\ RangeLen(Unwrap(prev.nodes[0].inner).children) = 0
    /\ draw_depth > 0

\* C31: a gather that reaches an expanded node without children panics with
\* "Children cannot be be empty": it returns no request, leaves the marker
\* unset and every node as it was; and no other gather panics this way.
C31_GatherAtChildlessNodeFails ==
    /\ GatherAtChildlessRoot =>
           /\ panic = "Children cannot be be empty"
           /\ last.ret = None
           /\ current_node_index = None
           /\ pending = None
           /\ nodes = prev.nodes
    /\ panic = "Children cannot be be empty" =>
           /\ GatherCalled
           /\ \E n \in DOMAIN prev.nodes :
                  /\ prev.nodes[n].inner # None
                  /\ RangeLen(Unwrap(prev.nodes[n].inner).children) = 0
    /\ \A n \in DOMAIN nodes :
           (nodes[n].inner # None /\ RangeLen(Unwrap(nodes[n].inner).children) = 0)
               => n = 0 /\ root_board = {}

\* the root of a board without moves was expanded, with visit count 1 and no
\* child, and the gather that followed panicked
C31_Witness ==
    /\ GatherAtChildlessRoot
    /\ panic # ""
    /\ nodes[0].visits = 1
    /\ Len0(nodes) = 1

----------------------------------------------------------------------------
\* the rounds of expand_tree

\* the last call completed a round: an apply, or a gather cut off at the
\* draw depth
RoundCompleted ==
    /\ panic = ""
    /\ \/ ApplyCalled
       \/ GatherCalled /\ last.ret = None

\* the calls expand_tree can still make: two for each visit the root lacks,
\* less the gather already made for an outstanding request
CallsLeft ==
    2 * (MaxIterations - nodes[0].visits) - (IF current_node_index = None THEN 0 ELSE 1)

\* expand_tree can go on: it has not panicked, and an outstanding request
\* has a response
CanGoOn == panic = "" /\ (current_node_index # None => ExecutorResponses # {})

\* C32: every apply and every gather cut off at the draw depth adds exactly
\* one visit to the root and a gather that returns a request adds none, so
\* the root's visit count is the number of completed rounds; it starts at 0,
\* expand_tree gathers only below the budget, and it stops when the round
\* that brings the count from budget - 1 to the budget is complete.
\* expand_tree terminates: below the budget it can always go on, and every
\* call it makes lowers the number of calls left, which is never negative.
C32_RootVisitsCountRounds ==
    /\ [](/\ last.op # "new" =>
                 nodes[0].visits = prev.nodes[0].visits + (IF RoundCompleted THEN 1 ELSE 0)
          /\ last.op = "new" => nodes[0].visits = 0
          /\ nodes[0].visits <= MaxIterations
          /\ (StopPredicate /\ last.op # "new") =>
                 /\ RoundCompleted
                 /\ prev.nodes[0].visits = MaxIterations - 1
                 /\ current_node_index = None
          /\ ~StopPredicate => CanGoOn
          /\ CallsLeft >= 0)
    /\ [][CallsLeft' < CallsLeft]_vars

\* expand_tree stopped at the budget after a round cut off at the draw depth
C32_Witness ==
    /\ StopPredicate
    /\ nodes[0].visits = MaxIterations
    /\ GatherCalled
    /\ RoundCompleted
    /\ draw_depth > 0

\* expand_tree stopped at the budget after an apply below the root
C32_WitnessApply ==
    /\ StopPredicate
    /\ ApplyCalled
    /\ Unwrap(last.response).node # 0

----------------------------------------------------------------------------
\* visit counts in the latent tree

\* the visits of the children of the expanded node n, summed
ChildVisits(n) == SetSum(RangeIndices(Children(n)), [c \in DOMAIN nodes |-> nodes[c].visits])

\* every node that was visited is expanded or lies at the draw depth
VisitedIsExpandedOrAtDrawDepth ==
    \A n \in DOMAIN nodes :
        nodes[n].visits > 0 => (Expanded(n) \/ Depth(nodes, n) = draw_depth)

\* C33 (as claimed): when no request is outstanding, every expanded node has
\* one visit more than its children together, and every visited node is
\* expanded or lies at the draw depth.
C33_VisitsAreOnePlusChildren ==
    current_node_index = None =>
        /\ \A n \in ExpandedNodes : nodes[n].visits = 1 + ChildVisits(n)
        /\ VisitedIsExpandedOrAtDrawDepth

\* C33 (amended): when no request is outstanding, every expanded node has one
\* visit more than its children together if the draw depth is 1 or more, and
\* lies above the draw depth; with draw depth 0 only the root is expanded,
\* it has one visit or more and its children have none; and every visited
\* node is expanded or lies at the draw depth.
C33_VisitsAreOnePlusChildrenAboveDrawDepth ==
    current_node_index = None =>
        /\ draw_depth >= 1 =>
               \A n \in ExpandedNodes :
                   /\ nodes[n].visits = 1 + ChildVisits(n)
                   /\ Depth(nodes, n) < draw_depth
        /\ draw_depth = 0 =>
               \A n \in ExpandedNodes :
                   /\ n = 0
                   /\ nodes[n].visits >= 1
                   /\ ChildVisits(n) = 0
        /\ VisitedIsExpandedOrAtDrawDepth

\* with a draw depth of 2 the root has three visits, its children two
\* together, and a node at the draw depth was visited without being expanded
C33_Witness ==
    /\ current_node_index = None
    /\ panic = ""
    /\ draw_depth = 2
    /\ nodes[0].visits = 3
    /\ ChildVisits(0) = 2
    /\ \E n \in DOMAIN nodes :
           nodes[n].visits > 0 /\ ~Expanded(n) /\ Depth(nodes, n) = 2

\* with draw depth 0 the expanded root has two visits and unvisited children
C33_WitnessDrawDepthZero ==
    /\ current_node_index = None
    /\ draw_depth = 0
    /\ Expanded(0)
    /\ nodes[0].visits = 2
    /\ ChildVisits(0) = 0

----------------------------------------------------------------------------
\* what a call leaves alone

\* the node n, which existed before the last call, has the parent, the move
\* and the prior it had, and the children it had if it had any
StructureKept(n) ==
    /\ nodes[n].parent = prev.nodes[n].parent
    /\ nodes[n].last_move_index = prev.nodes[n].last_move_index
    /\ nodes[n].net_policy = prev.nodes[n].net_policy
    /\ prev.nodes[n].inner # None => nodes[n].inner = prev.nodes[n].inner

\* C34: a call of gather or apply keeps every node that existed before it,
\* with its parent, its move, its prior and, if it was expanded, its state,
\* network values and children range; only an apply that succeeds gives a
\* node children, to the one node of its response, which had none, and the
\* new children are the nodes it appended; a gather that returns a request
\* changes the marker and no node.
C34_StructureNeverChanges ==
    last.op # "new" =>
        /\ DOMAIN prev.nodes \subseteq DOMAIN nodes
        /\ \A n \in DOMAIN prev.nodes : StructureKept(n)
        /\ \A n \in DOMAIN prev.nodes :
               (prev.nodes[n].inner = None /\ nodes[n].inner # None) =>
                   /\ ApplyCalled
                   /\ panic = ""
                   /\ Unwrap(last.response).node = n
                   /\ Children(n) = IdxRange(Len0(prev.nodes), Len0(nodes))
        /\ (~ApplyCalled \/ panic # "") => DOMAIN nodes = DOMAIN prev.nodes
        /\ (GatherCalled /\ last.ret # None) =>
               /\ nodes = prev.nodes
               /\ current_node_index # prev.current_node_index

\* an apply expanded a node below the root, whose prior was less than 1, in a
\* tree of more than three nodes
C34_Witness ==
    /\ ApplyCalled
    /\ panic = ""
    /\ Unwrap(last.response).node # 0
    /\ PolicyLess(nodes[Unwrap(last.response).node].net_policy, [num |-> 1, den |-> 1])
    /\ Len0(prev.nodes) > 3
    /\ Len0(nodes) > Len0(prev.nodes)

\* a gather returned a request for a node below the root
C34_WitnessGather ==
    /\ GatherCalled
    /\ last.ret # None
    /\ Unwrap(last.ret).node # 0
    /\ nodes = prev.nodes

----------------------------------------------------------------------------
\* the raw network evaluation of a sample

\* every sample among the positions holds the evaluation the network gave
\* for its board: the value, and the priors of the moves without noise
HoldRawEvaluation(positions) ==
    \A k \in 1..Len(positions) :
        /\ positions[k].net_evaluation.values = NetworkEval(positions[k].board).values
        /\ positions[k].net_evaluation.policy = NetworkEval(positions[k].board).policy

\* C35: every sample, of an active and of a finished game, holds the raw
\* network evaluation of its root, and every search that was declared done
\* had captured that evaluation: no tick panics for want of it.
C35_RawRootEvaluationAlwaysCaptured ==
    /\ \A i \in 1..Len(games) : HoldRawEvaluation(games[i].positions)
    /\ Ticked =>
           /\ \A k \in LogKind("FinishedSimulation") :
                  HoldRawEvaluation(LastTick.log[k].simulation.positions)
           /\ \A k \in LogKind("SearchDone") :
                  LastTick.log[k].search.root_net_eval # None
    /\ gen_panic # "called Option::unwrap on a None value"

\* the part of C35 that holds for every budget: the samples hold the raw
\* evaluation, and a search done at a budget of 1 or more had captured it
C35_RawRootEvaluationInSamples ==
    /\ \A i \in 1..Len(games) : HoldRawEvaluation(games[i].positions)
    /\ Ticked =>
           /\ \A k \in LogKind("FinishedSimulation") :
                  HoldRawEvaluation(LastTick.log[k].simulation.positions)
           /\ \A k \in LogKind("SearchDone") :
                  target_iterations(LastTick.log[k].search) >= 1
                      => LastTick.log[k].search.root_net_eval # None

----------------------------------------------------------------------------
\* the caches and the network that filled them

\* the networks whose evaluations the caches of the games hold
CacheNetworks ==
    UNION {{games[i].cache[j].eval.net : j \in 1..Len(games[i].cache)} :
               i \in 1..Len(games)}

\* C36: while a worker has a network, every evaluation in the cache of a
\* game was computed by that network: loading a new network leaves nothing
\* of the one before it in a cache, and nothing of it gets there later.
C36_CachesHoldCurrentNetworkOnly ==
    network # None => CacheNetworks \subseteq {Unwrap(network).id}

\* the part of C36 that holds: right after a new network was loaded, before
\* the next tick, every cache is empty
C36_CachesEmptyAfterNewNetwork ==
    (RoundStarted /\ LastRound.result = "NewNetwork" /\ pc = "advance") =>
        CacheNetworks = {}

----------------------------------------------------------------------------
\* a worker that waits for a new network

\* the step is a tick that did not panic, and it handed every response that
\* was stored before it to the game it was issued for, which applied it
StoredResponsesApplied ==
    \A i \in 1..Len(responses) :
        /\ \E k \in 1..Len(Unwrap(tick').log) :
               Unwrap(tick').log[k] = Delivered(responses[i].game, responses[i])
        /\ \E k \in 1..Len(Unwrap(tick').log) :
               Unwrap(tick').log[k] = AppliedTo(responses[i].game, responses[i])

\* C37: the command to wait for a new network takes the network away and no
\* tick follows it in its round; while the worker has no network no step of
\* it is a tick, so the evaluator is not called, and the stored responses
\* stay as they are; the games keep all but their caches, which the new
\* network clears; and a tick, the first after the pause like any other,
\* runs with a network and hands every stored response to the game it was
\* issued for, which applies it.
C37_PauseKeepsStoredResponses ==
    /\ []((RoundStarted /\ LastRound.result = "WaitForNewNetwork") =>
              /\ network = None
              /\ ~LastRound.ticked
              /\ worker = "running")
    /\ [][/\ network = None =>
                 /\ tick' = tick
                 /\ responses' = responses
                 /\ games' = (IF network' = None THEN games ELSE clear_caches(games))
          /\ tick' # tick =>
                 /\ network # None
                 /\ network' = network
                 /\ Len(responses) \in {0, batch_size}
                 /\ gen_panic' = "" => StoredResponsesApplied]_vars

\* a worker with two games ran a tick, was told to wait, received the new
\* network while blocked, and ran the next tick in the same round
C37_Witness ==
    /\ RoundStarted
    /\ LastRound.result = "NewNetwork"
    /\ LastRound.mode = "recv"
    /\ LastRound.ticked
    /\ TickNumber >= 2
    /\ gen_panic = ""
    /\ batch_size = 2
    /\ Cardinality(LogKind("Delivered")) = 2
    /\ Cardinality(LogKind("Applied")) >= 2

\* a worker that ran a tick waits for a network, its responses stored
C37_WitnessPaused ==
    /\ RoundStarted
    /\ LastRound.result = "WaitForNewNetwork"
    /\ RoundOver
    /\ TickNumber >= 1
    /\ Len(responses) = 2

----------------------------------------------------------------------------
\* the updates of finished games

\* the sequence new begins with the sequence old
Extends(old, new) ==
    /\ Len(old) <= Len(new)
    /\ SubSeq(new, 1, Len(old)) = old

\* the positions the game with the given index held before the step: none
\* for a game the step started
PositionsBefore(index) ==
    IF index \in GameIndices
    THEN games[CHOOSE i \in 1..Len(games) : games[i].index = index].positions
    ELSE <<>>

\* the indices the step gave to the games it started
StartedIndices == next_index..(next_index' - 1)

\* C38: the update of a finished game carries one position per ply of the
\* game, in the order of the plies; they are the positions the game held
\* before the tick followed by those of the moves it played in the tick, as a
\* game that goes on holds those it held before followed by those of the
\* tick; the update comes before the progress update of the tick; the games
\* of a generator have indices that differ, all below the index of the next
\* game; a game that finished is no longer among them, and only the games
\* of before and the games started with the next indices are.
C38_FinishedGameUpdates ==
    /\ [](/\ \A i, j \in 1..Len(games) : games[i].index = games[j].index => i = j
          /\ \A i \in 1..Len(games) : games[i].index < next_index
          /\ Ticked =>
                 \A f \in LogKind("FinishedSimulation") :
                     LET update == LastTick.log[f]
                         positions == update.simulation.positions
                     IN  /\ Len(positions) = GameLength
                         /\ \A k \in 1..Len(positions) : positions[k].board = [ply |-> k - 1]
                         /\ \A p \in LogKind("Progress") : f < p
                         /\ update.index \notin GameIndices
                         /\ update.index < next_index
                         /\ \A g \in LogKind("FinishedSimulation") :
                                LastTick.log[g].index = update.index => g = f)
    /\ [][/\ next_index' >= next_index
          /\ \A j \in 1..Len(games') :
                 /\ games'[j].index \in GameIndices \cup StartedIndices
                 /\ Extends(PositionsBefore(games'[j].index), games'[j].positions)
          /\ tick' # tick =>
                 \A f \in 1..Len(Unwrap(tick').log) :
                     LET update == Unwrap(tick').log[f]
                     IN  update.kind = "FinishedSimulation" =>
                             /\ update.index \in GameIndices \cup StartedIndices
                             /\ Extends(PositionsBefore(update.index),
                                        update.simulation.positions)
                             /\ Len(PositionsBefore(update.index)) < GameLength]_vars

\* a tick in which two games finished that had played in the ticks before,
\* each update with the positions of its own game, which differ
C38_Witness ==
    /\ Ticked
    /\ LastTick.number >= 3
    /\ batch_size = 2
    /\ LogKind("Progress") # {}
    /\ \E f, g \in LogKind("FinishedSimulation") :
           /\ LastTick.log[f].index = 0
           /\ LastTick.log[g].index = 1
           /\ \E k \in 1..GameLength :
                  LastTick.log[f].simulation.positions[k]
                      # LastTick.log[g].simulation.positions[k]

\* a game started after another had finished, with the next index
C38_WitnessNextGame ==
    /\ Ticked
    /\ batch_size = 1
    /\ LogKind("FinishedSimulation") = {}
    /\ GameIndices = {1}
    /\ games[1].positions # <<>>

----------------------------------------------------------------------------
\* the caches of the games

CacheEntries(cache) == {cache[k] : k \in 1..Len(cache)}

\* the cache the game at place i holds once the response stored at that
\* place was put into it
CacheAfterPut(i) ==
    cache_put(games[i].cache, responses[i].board, responses[i].eval)

\* C39: over a tick the cache of a game that goes on holds what it held
\* before with the response stored for that game put into it, under the
\* board of that response and with its evaluation, the entries in some
\* order: the searches done and the responses served from the cache in the
\* tick add nothing and take nothing away; the cache of a game the tick
\* started is empty; and a step that is no tick leaves the caches as they
\* are or, taking a new network, empties them all.
C39_CacheHoldsDeliveredResponses ==
    [][IF tick' # tick
       THEN \A j \in 1..Len(games') :
                IF games'[j].index \in GameIndices
                THEN LET i == CHOOSE i \in 1..Len(games) :
                                  games[i].index = games'[j].index
                     IN  /\ Len(responses) = Len(games)
                         /\ responses[i].game = games[i].index
                         /\ CacheEntries(games'[j].cache) = CacheEntries(CacheAfterPut(i))
                         /\ Len(games'[j].cache) = Len(CacheAfterPut(i))
                ELSE games'[j].cache = <<>>
       ELSE \/ games' = games
            \/ /\ games' = clear_caches(games)
               /\ network' # network
               /\ network' # None]_vars

\* a game played a move in the tick and was served from its cache, and
\* goes on with a full cache
C39_Witness ==
    /\ Ticked
    /\ gen_panic = ""
    /\ \E i \in 1..Len(games) :
           /\ games[i].index < LastTick.first_index
           /\ Len(games[i].cache) = MaxCacheSize
           /\ \E k \in LogKind("SearchDone") : LastTick.log[k].game = games[i].index
           /\ \E k \in LogKind("Served") : LastTick.log[k].game = games[i].index

\* a game started by the tick in which the game before it finished, its
\* cache empty
C39_WitnessNewGame ==
    /\ Ticked
    /\ gen_panic = ""
    /\ LogKind("FinishedSimulation") # {}
    /\ \E i \in 1..Len(games) :
           /\ games[i].index >= LastTick.first_index
           /\ games[i].index >= 1
           /\ games[i].cache = <<>>

\* a game whose cache a new network emptied holds the response that was
\* stored for it, and nothing else
C39_WitnessCleared ==
    /\ Ticked
    /\ RoundStarted
    /\ LastRound.result = "NewNetwork"
    /\ LastRound.ticked
    /\ TickNumber >= 3
    /\ gen_panic = ""
    /\ \E i \in 1..Len(games) :
           /\ games[i].index < LastTick.first_index
           /\ Len(games[i].cache) = 1

====
